---- MODULE Spec2Model ----
(***************************************************************************)
(* Webflow article / GA4 traffic sync.                                     *)
(*                                                                         *)
(* Nine specifications over one set of variables:                         *)
(*   Spec        the run coordinator of app.py (the /run handler and its   *)
(*               worker thread), run_sync() seen by its outcome;           *)
(*   StreamSpec  one accepted request, with the worker's prints and the    *)
(*               response generator;                                       *)
(*   SyncSpec    main.main(): read snapshot, fetch articles, fetch         *)
(*               traffic, hydrate, merge, sort, write; run after run;      *)
(*   SeededSpec  one run of main.main() over a sheet that is empty or was  *)
(*               written before;                                           *)
(*   PickupSpec  main.main() in standard mode with hydration on, every     *)
(*               run succeeding;                                           *)
(*   RetrySpec   the three retry wrappers;                                 *)
(*   ReadSpec    sheets_writer.read_article_traffic();                     *)
(*   FetchSpec   ga4_client.fetch_traffic_by_path() over path strings;     *)
(*   RecencySpec main._is_recent() over publish-date strings.              *)
(* Each specification's Init parks the variables of the others.            *)
(***************************************************************************)
EXTENDS Integers, Sequences, FiniteSets, TLC

VARIABLES
    \* ---- app.py
    RUN_LOCK,          \* TRUE while threading.Lock RUN_LOCK is held
    RUN_STATE,         \* the RUN_STATE dict
    clock,             \* int(time.time())
    reqPc,             \* per request: position in run()
    response,          \* per request: HTTP status returned (0: none yet)
    log_queue,         \* per request: Queue of chunks, "NONE" is the None marker
    exit_code_ref,     \* per request: exit_code_ref[0]
    status_ref,        \* per request: status_ref[0]
    failed_stage_ref,  \* per request: failed_stage_ref[0]
    started_ts,        \* per request: started_ts
    worker,            \* per request: position of run_sync_in_thread
    printed,           \* per request: the chunks the worker has written, in order
    streamed,          \* per request: what generate() has yielded
    \* ---- main.py
    mpc,               \* position in main()
    cfg,               \* the configuration main() imports
    cms,               \* what the CMS returns from get_articles()
    gaRows,            \* paths for which the analytics property has a row
    today,             \* datetime.now().date(), as a day number
    sheet,             \* the worksheet's cells (list of rows)
    existing_sheet,    \* main(): existing_sheet
    articles,          \* main(): articles
    traffic,           \* main(): traffic
    historical_traffic,\* main(): historical_traffic
    hydrate_all,       \* main(): hydrate_candidates_all
    hydrate_sel,       \* main(): hydrate_candidates
    rows,              \* main(): rows
    all_cells,         \* write_article_traffic(): all_cells
    batch_i,           \* write_article_traffic(): i of the batch loop
    trace,             \* this run's outbound events, in order
    runInfo,           \* outcome of this run
    prevRun,           \* what the previous run left behind
    \* ---- retry wrappers
    wrapper,           \* which wrapper runs
    attempt,           \* loop variable attempt
    outcomes,          \* outcome of every attempt so far
    sleeps,            \* every time.sleep() argument so far
    retryResult,       \* "running", "returned", "raised_wrapped", "raised_raw"
    \* ---- read_article_traffic
    rpc,               \* position in read_article_traffic()
    rAttempt,          \* attempt of the _retry_call in progress
    rStore,            \* the state of the spreadsheet being read
    rValues,           \* all_values
    rResult,           \* what read_article_traffic() returned or raised
    rCalls,            \* outbound Sheets API calls made
    \* ---- fetch_traffic_by_path
    fpc,               \* position in fetch_traffic_by_path()
    original_paths,    \* original_paths
    normalized_to_originals, \* normalized_to_originals
    normalized_result, \* normalized_result
    report_rows,       \* the rows of the report responses processed so far
    fetch_result,      \* result, once returned
    \* ---- _is_recent over date strings
    qpc,               \* position in _is_recent()
    pub_text,          \* article["publish_date"], a string
    pub_form,          \* how the string was written
    pub_when,          \* the date and time it was written from
    now_date,          \* datetime.now().date()
    is_recent          \* what _is_recent() returned

coordVars == <<RUN_LOCK, RUN_STATE, clock, reqPc, response, log_queue, exit_code_ref,
               status_ref, failed_stage_ref, started_ts, worker, printed, streamed>>
syncVars == <<mpc, cfg, cms, gaRows, today, sheet, existing_sheet, articles, traffic,
              historical_traffic, hydrate_all, hydrate_sel, rows, all_cells, batch_i,
              trace, runInfo, prevRun>>
retryVars == <<wrapper, attempt, outcomes, sleeps, retryResult>>
readVars == <<rpc, rAttempt, rStore, rValues, rResult, rCalls>>
fetchVars == <<fpc, original_paths, normalized_to_originals, normalized_result,
               report_rows, fetch_result>>
recencyVars == <<qpc, pub_text, pub_form, pub_when, now_date, is_recent>>
vars == <<coordVars, syncVars, retryVars, readVars, fetchVars, recencyVars>>

(***************************************************************************)
(* Bounds of the model.                                                    *)
(***************************************************************************)
NumReq == 2
MaxClock == 1
MaxPrints == 1
MaxArticles == 2
MaxLimit == 1
MaxTicks == 1
MaxPathLen == 3
MaxPaths == 2
MaxRows == 1

\* Python's None in an integer field of RUN_STATE.
None == -1

Range(s) == {s[i] : i \in DOMAIN s}

\* ======================================================================
\* app.py: the run coordinator
\* ======================================================================
\* The /run requests the server receives, each handled in a thread of its own.
Req == 1..NumReq

RunStateInit ==
    [running |-> FALSE, started_at |-> None, last_status |-> "idle",
     last_exit_code |-> None, last_duration_seconds |-> None,
     last_finished_at |-> None]

CoordParked ==
    /\ RUN_LOCK = FALSE
    /\ RUN_STATE = RunStateInit
    /\ clock = 0
    /\ reqPc = <<>>
    /\ response = <<>>
    /\ log_queue = <<>>
    /\ exit_code_ref = <<>>
    /\ status_ref = <<>>
    /\ failed_stage_ref = <<>>
    /\ started_ts = <<>>
    /\ worker = <<>>
    /\ printed = <<>>
    /\ streamed = <<>>

CoordInit ==
    /\ RUN_LOCK = FALSE
    /\ RUN_STATE = RunStateInit
    /\ clock = 0
    /\ reqPc = [r \in Req |-> "idle"]
    /\ response = [r \in Req |-> 0]
    /\ log_queue = [r \in Req |-> <<>>]
    /\ exit_code_ref = [r \in Req |-> 0]
    /\ status_ref = [r \in Req |-> "none"]
    /\ failed_stage_ref = [r \in Req |-> "none"]
    /\ started_ts = [r \in Req |-> 0]
    /\ worker = [r \in Req |-> "none"]
    /\ printed = [r \in Req |-> <<>>]
    /\ streamed = [r \in Req |-> <<>>]

\* What a call of time.time() may return: the last value read, or a later one.
TimeNow == clock..MaxClock

\* run(): _token_ok() is false.
RunForbidden(r) ==
    /\ reqPc[r] = "idle"
    /\ reqPc' = [reqPc EXCEPT ![r] = "forbidden"]
    /\ response' = [response EXCEPT ![r] = 403]
    /\ UNCHANGED <<RUN_LOCK, RUN_STATE, clock, log_queue, exit_code_ref, status_ref,
                   failed_stage_ref, started_ts, worker, printed, streamed>>

\* run(): RUN_LOCK.acquire(blocking=False) fails.
RunReject(r) ==
    /\ reqPc[r] = "idle"
    /\ RUN_LOCK
    /\ reqPc' = [reqPc EXCEPT ![r] = "rejected"]
    /\ response' = [response EXCEPT ![r] = 409]
    /\ UNCHANGED <<RUN_LOCK, RUN_STATE, clock, log_queue, exit_code_ref, status_ref,
                   failed_stage_ref, started_ts, worker, printed, streamed>>

\* A coordinator that takes the lock without testing it.
RunAcquire_Unguarded(r) ==
    /\ reqPc[r] = "idle"
    /\ RUN_LOCK' = TRUE
    /\ reqPc' = [reqPc EXCEPT ![r] = "acquired"]
    /\ log_queue' = [log_queue EXCEPT ![r] = <<>>]
    /\ exit_code_ref' = [exit_code_ref EXCEPT ![r] = 0]
    /\ status_ref' = [status_ref EXCEPT ![r] = "running"]
    /\ failed_stage_ref' = [failed_stage_ref EXCEPT ![r] = "unknown"]
    /\ \E t \in TimeNow :
          /\ clock' = t
          /\ started_ts' = [started_ts EXCEPT ![r] = t]
    /\ UNCHANGED <<RUN_STATE, response, worker, printed, streamed>>

\* run(): RUN_LOCK.acquire(blocking=False) succeeds; the request's locals are made.
RunAcquire(r) ==
    /\ reqPc[r] = "idle"
    /\ ~RUN_LOCK
    /\ RUN_LOCK' = TRUE
    /\ reqPc' = [reqPc EXCEPT ![r] = "acquired"]
    /\ log_queue' = [log_queue EXCEPT ![r] = <<>>]
    /\ exit_code_ref' = [exit_code_ref EXCEPT ![r] = 0]
    /\ status_ref' = [status_ref EXCEPT ![r] = "running"]
    /\ failed_stage_ref' = [failed_stage_ref EXCEPT ![r] = "unknown"]
    /\ \E t \in TimeNow :
          /\ clock' = t
          /\ started_ts' = [started_ts EXCEPT ![r] = t]
    /\ UNCHANGED <<RUN_STATE, response, worker, printed, streamed>>

\* run(): with RUN_STATE_LOCK: mark the run as running.
RunSetState(r) ==
    /\ reqPc[r] = "acquired"
    /\ RUN_STATE' = [RUN_STATE EXCEPT !.running = TRUE,
                                      !.started_at = started_ts[r],
                                      !.last_status = "running",
                                      !.last_exit_code = None]
    /\ reqPc' = [reqPc EXCEPT ![r] = "state_set"]
    /\ UNCHANGED <<RUN_LOCK, clock, response, log_queue, exit_code_ref, status_ref,
                   failed_stage_ref, started_ts, worker, printed, streamed>>

\* run(): thread.start(), then the streaming Response is returned.
RunStartThread(r) ==
    /\ reqPc[r] = "state_set"
    /\ worker' = [worker EXCEPT ![r] = "begin"]
    /\ printed' = [printed EXCEPT ![r] = <<>>]
    /\ streamed' = [streamed EXCEPT ![r] = <<"HEAD">>]
    /\ response' = [response EXCEPT ![r] = 200]
    /\ reqPc' = [reqPc EXCEPT ![r] = "streaming"]
    /\ UNCHANGED <<RUN_LOCK, RUN_STATE, clock, log_queue, exit_code_ref, status_ref,
                   failed_stage_ref, started_ts>>

\* The text of traceback.format_exc(): it names its frames 'in <module>'.
TracebackChunk == "in <module>"

\* html.escape(chunk): of the chunks written here only the traceback holds
\* characters it replaces.
HtmlEscape(chunk) == IF chunk = TracebackChunk THEN "in &lt;module&gt;" ELSE chunk

\* run_sync_in_thread(): print("Starting sync..."); failed_stage_ref[0] = "main.sync".
WorkerBegin(r) ==
    /\ worker[r] = "begin"
    /\ log_queue' = [log_queue EXCEPT ![r] = Append(@, "Starting sync...")]
    /\ printed' = [printed EXCEPT ![r] = Append(@, "Starting sync...")]
    /\ failed_stage_ref' = [failed_stage_ref EXCEPT ![r] = "main.sync"]
    /\ worker' = [worker EXCEPT ![r] = "sync"]
    /\ UNCHANGED <<RUN_LOCK, RUN_STATE, clock, reqPc, response, exit_code_ref,
                   status_ref, started_ts, streamed>>

\* run_sync() prints a line through QueueWriter.write.
WorkerPrint(r) ==
    /\ worker[r] = "sync"
    /\ Cardinality({i \in DOMAIN printed[r] : printed[r][i] = "line"}) < MaxPrints
    /\ printed' = [printed EXCEPT ![r] = Append(@, "line")]
    /\ log_queue' = [log_queue EXCEPT ![r] = Append(@, "line")]
    /\ UNCHANGED <<RUN_LOCK, RUN_STATE, clock, reqPc, response, exit_code_ref,
                   status_ref, failed_stage_ref, started_ts, worker, streamed>>

\* run_sync() returns.
WorkerSyncReturns(r) ==
    /\ worker[r] = "sync"
    /\ exit_code_ref' = [exit_code_ref EXCEPT ![r] = 0]
    /\ status_ref' = [status_ref EXCEPT ![r] = "succeeded"]
    /\ failed_stage_ref' = [failed_stage_ref EXCEPT ![r] = ""]
    /\ worker' = [worker EXCEPT ![r] = "finally"]
    /\ UNCHANGED <<RUN_LOCK, RUN_STATE, clock, reqPc, response, log_queue,
                   started_ts, printed, streamed>>

\* run_sync() calls sys.exit(code): main() uses sys.exit(1) and sys.exit(0).
WorkerSyncExits(r) ==
    /\ worker[r] = "sync"
    /\ \E code \in {0, 1} :
          exit_code_ref' = [exit_code_ref EXCEPT ![r] = code]
    /\ status_ref' = [status_ref EXCEPT ![r] = "failed"]
    /\ failed_stage_ref' =
          [failed_stage_ref EXCEPT ![r] = IF @ = "" \/ @ = "unknown" THEN "system_exit" ELSE @]
    /\ worker' = [worker EXCEPT ![r] = "finally"]
    /\ UNCHANGED <<RUN_LOCK, RUN_STATE, clock, reqPc, response, log_queue,
                   started_ts, printed, streamed>>

\* run_sync() raises an Exception: the error and the traceback are queued.
WorkerSyncRaises(r) ==
    /\ worker[r] = "sync"
    /\ exit_code_ref' = [exit_code_ref EXCEPT ![r] = 1]
    /\ status_ref' = [status_ref EXCEPT ![r] = "failed"]
    /\ failed_stage_ref' =
          [failed_stage_ref EXCEPT ![r] =
              IF @ = "" \/ @ = "unknown" THEN "unhandled_exception" ELSE @]
    /\ log_queue' = [log_queue EXCEPT ![r] = @ \o <<"Error", TracebackChunk>>]
    /\ printed' = [printed EXCEPT ![r] = @ \o <<"Error", TracebackChunk>>]
    /\ worker' = [worker EXCEPT ![r] = "finally"]
    /\ UNCHANGED <<RUN_LOCK, RUN_STATE, clock, reqPc, response, started_ts, streamed>>

\* finally: RUN_STATE after "with RUN_STATE_LOCK:", ended_ts being time.time().
Finalized(r, ended_ts) ==
    [RUN_STATE EXCEPT !.running = FALSE,
                      !.last_status = status_ref[r],
                      !.last_exit_code = exit_code_ref[r],
                      !.last_duration_seconds = ended_ts - started_ts[r],
                      !.last_finished_at = ended_ts]

\* finally: ended_ts = time.time(); with RUN_STATE_LOCK: record the outcome.
WorkerFinalize(r) ==
    /\ worker[r] = "finally"
    /\ \E t \in TimeNow :
          /\ clock' = t
          /\ RUN_STATE' = Finalized(r, t)
    /\ worker' = [worker EXCEPT ![r] = "release"]
    /\ UNCHANGED <<RUN_LOCK, reqPc, response, log_queue, exit_code_ref,
                   status_ref, failed_stage_ref, started_ts, printed, streamed>>

\* A finally block that releases the lock only after a run that succeeded.
LockAfterRelease_OnSuccessOnly(r) == RUN_LOCK /\ status_ref[r] # "succeeded"

\* The lock after RUN_LOCK.release().
LockAfterRelease(r) == FALSE

\* finally: RUN_LOCK.release().
WorkerRelease(r) ==
    /\ worker[r] = "release"
    /\ RUN_LOCK' = LockAfterRelease(r)
    /\ worker' = [worker EXCEPT ![r] = "put_none"]
    /\ UNCHANGED <<RUN_STATE, clock, reqPc, response, log_queue, exit_code_ref,
                   status_ref, failed_stage_ref, started_ts, printed, streamed>>

\* finally: log_queue.put(None).
WorkerPutNone(r) ==
    /\ worker[r] = "put_none"
    /\ log_queue' = [log_queue EXCEPT ![r] = Append(@, "NONE")]
    /\ worker' = [worker EXCEPT ![r] = "done"]
    /\ UNCHANGED <<RUN_LOCK, RUN_STATE, clock, reqPc, response, exit_code_ref,
                   status_ref, failed_stage_ref, started_ts, printed, streamed>>

\* generate(): log_queue.get() returns a chunk, which is yielded escaped (the
\* empty string yielded while the queue is empty adds nothing to the stream).
GenChunk(r) ==
    /\ reqPc[r] = "streaming"
    /\ log_queue[r] # <<>>
    /\ Head(log_queue[r]) # "NONE"
    /\ streamed' = [streamed EXCEPT ![r] = Append(@, HtmlEscape(Head(log_queue[r])))]
    /\ log_queue' = [log_queue EXCEPT ![r] = Tail(@)]
    /\ UNCHANGED <<RUN_LOCK, RUN_STATE, clock, reqPc, response, exit_code_ref,
                   status_ref, failed_stage_ref, started_ts, worker, printed>>

\* A final status line made of what the references held when the run started.
FinalLine_AtStart(r, now) ==
    [status |-> "running", exit_code |-> 0,
     duration_seconds |-> now - started_ts[r], failed_stage |-> "unknown"]

\* The final status line of generate(), the time being now.
FinalLine(r, now) ==
    [status |-> status_ref[r], exit_code |-> exit_code_ref[r],
     duration_seconds |-> now - started_ts[r],
     failed_stage |-> IF status_ref[r] # "succeeded" THEN failed_stage_ref[r] ELSE ""]

\* generate(): the None marker arrives; the final status line and the tail follow.
GenFinal(r) ==
    /\ reqPc[r] = "streaming"
    /\ log_queue[r] # <<>>
    /\ Head(log_queue[r]) = "NONE"
    /\ log_queue' = [log_queue EXCEPT ![r] = Tail(@)]
    /\ \E t \in TimeNow :
          /\ clock' = t
          /\ streamed' = [streamed EXCEPT ![r] = @ \o <<FinalLine(r, t), "TAIL">>]
    /\ reqPc' = [reqPc EXCEPT ![r] = "done"]
    /\ UNCHANGED <<RUN_LOCK, RUN_STATE, response, exit_code_ref, status_ref,
                   failed_stage_ref, started_ts, worker, printed>>

\* The steps of run_sync_in_thread, run_sync() being seen by its outcome alone.
WorkerStep(r) ==
    \/ WorkerBegin(r)
    \/ WorkerSyncReturns(r)
    \/ WorkerSyncExits(r)
    \/ WorkerSyncRaises(r)
    \/ WorkerFinalize(r)
    \/ WorkerRelease(r)
    \/ WorkerPutNone(r)

\* The run whose worker is between thread.start() and RUN_LOCK.release().
Executing(r) == worker[r] \in {"begin", "sync", "finally", "release"}

\* The request or worker that holds RUN_LOCK and is on its way to releasing it.
HoldsLock(r) == reqPc[r] \in {"acquired", "state_set"} \/ Executing(r)

\* A request that leaves "idle" while the lock is held is answered at once with 409
\* (403 without a valid token), starts no worker, and leaves RUN_STATE, the lock and
\* every run's status, exit code and log as they were.
RejectedTouchesNothing ==
    \A r \in Req :
        (reqPc[r] = "idle" /\ RUN_LOCK /\ reqPc'[r] # "idle") =>
            /\ reqPc'[r] \in {"rejected", "forbidden"}
            /\ response'[r] = IF reqPc'[r] = "rejected" THEN 409 ELSE 403
            /\ UNCHANGED <<RUN_LOCK, RUN_STATE, worker, status_ref, exit_code_ref,
                           failed_stage_ref, log_queue, started_ts>>

\* C1: single-flight. At most one worker executes at a time, the lock is held
\* whenever one does, and a request arriving while the lock is held is rejected
\* immediately without touching RUN_STATE or the run in progress.
C1_SingleFlight ==
    /\ [](Cardinality({r \in Req : Executing(r)}) <= 1)
    /\ [](\A r \in Req : Executing(r) => RUN_LOCK)
    /\ [][RejectedTouchesNothing]_vars

\* A request was rejected with 409 while another run's worker is inside run_sync().
C1_Witness ==
    \E r1, r2 \in Req :
        /\ r1 # r2
        /\ reqPc[r1] = "rejected" /\ response[r1] = 409 /\ worker[r1] = "none"
        /\ worker[r2] = "sync" /\ RUN_STATE.running

\* RUN_STATE as the finally block leaves it for the run of request r.
FinalizedFor(r) ==
    /\ RUN_STATE.running = FALSE
    /\ RUN_STATE.last_status \in {"succeeded", "failed"}
    /\ RUN_STATE.last_status = status_ref[r]
    /\ RUN_STATE.last_exit_code = exit_code_ref[r]
    /\ RUN_STATE.last_exit_code # None
    /\ RUN_STATE.last_duration_seconds # None
    /\ RUN_STATE.last_duration_seconds >= 0
    /\ RUN_STATE.last_finished_at # None

\* The step in which a worker leaves the finally block's release.
ReleaseFinalizes ==
    \A r \in Req :
        (worker[r] = "release" /\ worker'[r] = "put_none") =>
            /\ ~RUN_LOCK'
            /\ FinalizedFor(r)'

\* A request with a valid token that arrives while the lock is free is accepted.
AcceptedWhenFree ==
    \A q \in Req :
        (reqPc[q] = "idle" /\ ~RUN_LOCK /\ reqPc'[q] \notin {"idle", "forbidden"}) =>
            (reqPc'[q] = "acquired" /\ RUN_LOCK')

\* C2: no leaked lock. The lock is held only while an accepted run is still on its
\* way to the release; every worker that entered run_sync(), whichever way
\* run_sync() ends, reaches the release; and at the release RUN_STATE is finalized
\* and the lock is free, so the next request is accepted.
C2_NoLeakedLock ==
    /\ [](RUN_LOCK => \E r \in Req : HoldsLock(r))
    /\ [](~RUN_LOCK => ~RUN_STATE.running /\ RUN_STATE.last_status # "running")
    /\ [][ReleaseFinalizes]_vars
    /\ [][AcceptedWhenFree]_vars
    /\ \A r \in Req : (worker[r] = "sync") ~> (worker[r] = "put_none")

\* A run that failed with an exception has terminated, and the next request has
\* been accepted.
C2_Witness ==
    \E r1, r2 \in Req :
        /\ r1 # r2
        /\ worker[r1] = "done" /\ status_ref[r1] = "failed" /\ exit_code_ref[r1] = 1
        /\ reqPc[r2] = "acquired"
        /\ RUN_STATE.last_status = "failed" /\ ~RUN_STATE.running

\* ======================================================================
\* The retry wrappers: webflow_client._request_with_retries,
\* ga4_client._run_report_with_retries, sheets_writer._retry_call
\* ======================================================================
MAX_RETRIES == 4

Wrappers == {"webflow", "ga4", "sheets"}

\* What one invocation of the wrapped operation may do: succeed, answer with an
\* HTTP error status, time out, lose the connection, or raise an exception that
\* is none of these ("other": a ValueError, say).  The two gspread lookups may
\* also raise SpreadsheetNotFound or WorksheetNotFound.
HttpOutcomes == {"http403", "http404", "http429", "http503"}
CallOutcomes == {"ok", "timeout", "connection", "other"} \cup HttpOutcomes

StatusOf(o) ==
    CASE o = "http403" -> 403
      [] o = "http404" -> 404
      [] o = "http429" -> 429
      [] o = "http503" -> 503
      [] OTHER -> 0

WEBFLOW_RETRYABLE_STATUS_CODES == {408, 429, 500, 502, 503, 504}
GA4_RETRYABLE_STATUS_CODES == {429, 500, 502, 503, 504}
SHEETS_RETRYABLE_STATUS_CODES == {408, 429, 500, 502, 503, 504}

\* A backoff that doubles from two seconds instead of one.
Backoff_FromTwo(n) == 2 ^ n

\* time.sleep(2 ** (attempt - 1))
Backoff(n) == 2 ^ (n - 1)

\* _request_with_retries: what attempt n does when the request ends as o.
\* A response with an error status that is not retried now goes through
\* raise_for_status(), whose HTTPError is a RequestException and is caught by
\* "except RequestException" in the same loop body.
WebflowDecide(n, o) ==
    CASE o = "ok" -> "return"
      [] o \in HttpOutcomes ->
            IF StatusOf(o) \in WEBFLOW_RETRYABLE_STATUS_CODES /\ n < MAX_RETRIES
            THEN "retry"
            ELSE IF n < MAX_RETRIES THEN "retry" ELSE "raise_wrapped"
      [] o = "timeout" -> IF n < MAX_RETRIES THEN "retry" ELSE "raise_wrapped"
      [] o = "connection" -> IF n < MAX_RETRIES THEN "retry" ELSE "raise_wrapped"
      [] OTHER -> "raise_raw"

\* _run_report_with_retries: an HttpError is retried on a retryable status; any
\* other Exception is retried whatever it is.
Ga4Decide(n, o) ==
    CASE o = "ok" -> "return"
      [] o \in HttpOutcomes ->
            IF StatusOf(o) \in GA4_RETRYABLE_STATUS_CODES /\ n < MAX_RETRIES
            THEN "retry"
            ELSE "raise_wrapped"
      [] OTHER -> IF n < MAX_RETRIES THEN "retry" ELSE "raise_wrapped"

\* _is_retryable_error
IsRetryableError(o) ==
    IF o \in HttpOutcomes
    THEN StatusOf(o) \in SHEETS_RETRYABLE_STATUS_CODES
    ELSE o \in {"timeout", "connection"}

\* _retry_call: every exception that is not retried leaves as a RuntimeError.
SheetsDecide(n, o) ==
    CASE o = "ok" -> "return"
      [] OTHER -> IF n < MAX_RETRIES /\ IsRetryableError(o) THEN "retry" ELSE "raise_wrapped"

Decide(w, n, o) ==
    CASE w = "webflow" -> WebflowDecide(n, o)
      [] w = "ga4" -> Ga4Decide(n, o)
      [] OTHER -> SheetsDecide(n, o)

RetryInit ==
    /\ wrapper \in Wrappers
    /\ attempt = 1
    /\ outcomes = <<>>
    /\ sleeps = <<>>
    /\ retryResult = "running"

\* One pass of "for attempt in range(1, MAX_RETRIES + 1)" in wrapper w: the
\* operation is invoked and ends as o.
LoopPass(w, o) ==
    /\ wrapper = w
    /\ retryResult = "running"
    /\ attempt <= MAX_RETRIES
    /\ outcomes' = Append(outcomes, o)
    /\ LET d == Decide(w, attempt, o) IN
          /\ sleeps' = IF d = "retry" THEN Append(sleeps, Backoff(attempt)) ELSE sleeps
          /\ attempt' = IF d = "retry" THEN attempt + 1 ELSE attempt
          /\ retryResult' = CASE d = "retry" -> "running"
                              [] d = "return" -> "returned"
                              [] d = "raise_wrapped" -> "raised_wrapped"
                              [] OTHER -> "raised_raw"
    /\ UNCHANGED wrapper

WebflowAttempt == \E o \in CallOutcomes : LoopPass("webflow", o)
Ga4Attempt == \E o \in CallOutcomes : LoopPass("ga4", o)
SheetsAttempt == \E o \in CallOutcomes : LoopPass("sheets", o)

RECURSIVE SumSeq(_)
SumSeq(q) == IF q = <<>> THEN 0 ELSE Head(q) + SumSeq(Tail(q))

\* C8: every wrapper invokes the operation at most 4 times, sleeps 1, 2, 4 seconds
\* after the 1st, 2nd, 3rd attempt that is retried (at most 7 seconds in all),
\* never sleeps after its last attempt, and stops at the first success, which it
\* returns.
C8_BoundedBackoff ==
    wrapper \in Wrappers =>
        /\ Len(outcomes) <= 4
        /\ sleeps = SubSeq(<<1, 2, 4>>, 1, Len(sleeps))
        /\ SumSeq(sleeps) <= 7
        /\ Len(sleeps) = IF retryResult = "running" THEN Len(outcomes) ELSE Len(outcomes) - 1
        /\ \A i \in 1..Len(outcomes) :
              outcomes[i] = "ok" => (i = Len(outcomes) /\ retryResult = "returned")
        /\ retryResult = "returned" => outcomes[Len(outcomes)] = "ok"

\* Three retried failures, then a success on the fourth attempt.
C8_Witness ==
    /\ wrapper \in Wrappers
    /\ retryResult = "returned"
    /\ Len(outcomes) = 4
    /\ sleeps = <<1, 2, 4>>

\* A failure that is neither a rate-limit or transient-server status, nor a timeout,
\* nor a connection error.
NonRetryable(o) == o \in {"http403", "http404", "other"}

\* C9: in every wrapper a non-retryable failure ends the call at that attempt,
\* with no sleep and no further attempt, as an error wrapping the cause; so does
\* a retryable failure on the 4th attempt.
C9_NonRetryableFailsAtOnce ==
    wrapper \in Wrappers =>
        /\ \A i \in 1..Len(outcomes) :
              NonRetryable(outcomes[i]) =>
                  /\ i = Len(outcomes)
                  /\ Len(sleeps) = i - 1
                  /\ retryResult = "raised_wrapped"
        /\ (Len(outcomes) = 4 /\ outcomes[4] # "ok") => retryResult = "raised_wrapped"

\* ======================================================================
\* sheets_writer.py: the worksheet's cells
\* ======================================================================
\* A numeric cell is the text the program writes: a sequence of characters.
DigitChars == <<"0", "1", "2", "3", "4", "5", "6", "7", "8", "9">>

DigitChar(d) == DigitChars[d + 1]

DigitVal(ch) == CHOOSE d \in 0..9 : DigitChars[d + 1] = ch

RECURSIVE DigitsOf(_)
DigitsOf(n) == IF n < 10 THEN <<DigitChar(n)>> ELSE Append(DigitsOf(n \div 10), DigitChar(n % 10))

RECURSIVE Grouped(_)
Grouped(ds) ==
    IF Len(ds) <= 3 THEN ds
    ELSE Grouped(SubSeq(ds, 1, Len(ds) - 3)) \o <<",">> \o SubSeq(ds, Len(ds) - 2, Len(ds))

\* f"{n:,}" for n >= 0
FormatInt(n) == Grouped(DigitsOf(n))

RECURSIVE ValueOf(_)
ValueOf(ds) ==
    IF ds = <<>> THEN 0
    ELSE 10 * ValueOf(SubSeq(ds, 1, Len(ds) - 1)) + DigitVal(ds[Len(ds)])

IsComma(ch) == ch = ","

NotComma(ch) == ~IsComma(ch)

\* A reader that leaves the thousands separators in: int() of such a cell fails.
ParseIntCell_KeepCommas(cell) ==
    IF cell # <<>> /\ \A i \in 1..Len(cell) : cell[i] \in Range(DigitChars)
    THEN ValueOf(cell) ELSE 0

\* int(str(cell or "").replace(",", "")) or 0, a ValueError giving 0
ParseIntCell(cell) ==
    LET t == SelectSeq(cell, NotComma) IN
    IF t # <<>> /\ \A i \in 1..Len(t) : t[i] \in Range(DigitChars) THEN ValueOf(t) ELSE 0

META_ROW == <<"Last Updated">>
HEADER_ROW == <<"Title", "Publish Date", "Pageviews", "URL", "Sessions", "Users">>

\* _num(val) of a value that is an int already
Num(v) == v

\* write_article_traffic: one element of data_rows
DataRow(r) ==
    <<r.Title, r.PublishDate, FormatInt(Num(r.Pageviews)), r.URL,
      FormatInt(Num(r.Sessions)), FormatInt(Num(r.Users))>>

\* The empty URL cell.
NoUrl == 0

\* read_article_traffic: a row enters the result when it has six cells and a URL.
RowCounts(row) == Len(row) >= 6 /\ row[4] # NoUrl

\* read_article_traffic: the entry a row gives (Pageviews=2, URL=3, Sessions=4,
\* Users=5, counting from 0).
RowEntry(row) ==
    [Sessions |-> ParseIntCell(row[5]), Users |-> ParseIntCell(row[6]),
     Pageviews |-> ParseIntCell(row[3])]

\* read_article_traffic, from "if len(all_values) < 3" on: URL -> metrics, a later
\* row replacing an earlier one with the same URL.
ParseSheet(all_values) ==
    IF Len(all_values) < 3 THEN <<>>
    ELSE LET idx == {i \in 3..Len(all_values) : RowCounts(all_values[i])}
             urls == {all_values[i][4] : i \in idx}
             last(u) == CHOOSE i \in idx :
                           /\ all_values[i][4] = u
                           /\ \A j \in idx : all_values[j][4] = u => j <= i
         IN [u \in urls |-> RowEntry(all_values[last(u)])]

\* ======================================================================
\* sheets_writer.read_article_traffic
\* ======================================================================
\* Worksheets a reader may meet: never written, written by this program, and
\* edited by hand afterwards (a short row, a row without URL, a cell that is no
\* number, a URL twice).
RowFor(u, s, us, pv) ==
    DataRow([Title |-> <<"title", u>>, PublishDate |-> 0, URL |-> u,
             Sessions |-> s, Users |-> us, Pageviews |-> pv])

ReadGrids ==
    { <<>>,
      <<META_ROW>>,
      <<META_ROW, HEADER_ROW>>,
      <<META_ROW, HEADER_ROW, RowFor(1, 1234, 900, 2000)>>,
      <<META_ROW, HEADER_ROW, RowFor(1, 10, 8, 12), RowFor(2, 0, 0, 0)>>,
      <<META_ROW, HEADER_ROW, <<<<"title", 1>>, 0, FormatInt(12)>>, RowFor(2, 10, 8, 12)>>,
      <<META_ROW, HEADER_ROW, RowFor(NoUrl, 10, 8, 12)>>,
      <<META_ROW, HEADER_ROW, <<<<"title", 1>>, 0, <<"x">>, 1, <<>>, FormatInt(8)>>>>,
      <<META_ROW, HEADER_ROW, RowFor(1, 10, 8, 12), RowFor(1, 1234, 900, 2000)>> }

ReadStores ==
    {[state |-> "no_spreadsheet", values |-> <<>>], [state |-> "no_worksheet", values |-> <<>>]}
        \cup {[state |-> "ok", values |-> g] : g \in ReadGrids}

\* Failures of a Sheets API call that have nothing to do with missing data.
ReadTrouble == {"http503", "http403", "timeout"}

ReadInit ==
    /\ rpc = "open"
    /\ rAttempt = 1
    /\ rStore \in ReadStores
    /\ rValues = <<>>
    /\ rResult = [kind |-> "pending", value |-> <<>>, exc |-> ""]
    /\ rCalls = <<>>

\* The exception that leaves _retry_call when attempt n ends as o and is not
\* retried: always the RuntimeError of its last line.
RetryCallRaises(n, o) == "RuntimeError"

\* "except <caught>:" around a _retry_call that raised.
Caught(raised, caught) == caught = "Exception" \/ raised = caught

\* One attempt of _retry_call(fn, stage) inside read_article_traffic: fn ends as o;
\* on success the function moves on to `next`, and an exception that leaves
\* _retry_call is caught by "except <caught>: return {}" or propagates.
ReadCall(stage, o, next, caught) ==
    /\ rpc = stage
    /\ rCalls' = Append(rCalls, <<stage, o>>)
    /\ LET d == SheetsDecide(rAttempt, o) IN
          CASE d = "return" ->
                  /\ rpc' = next
                  /\ rAttempt' = 1
                  /\ rValues' = IF stage = "values" THEN rStore.values ELSE rValues
                  /\ UNCHANGED rResult
            [] d = "retry" ->
                  /\ rAttempt' = rAttempt + 1
                  /\ UNCHANGED <<rpc, rValues, rResult>>
            [] OTHER ->
                  /\ rpc' = "done"
                  /\ rResult' = IF Caught(RetryCallRaises(rAttempt, o), caught)
                                THEN [kind |-> "returned", value |-> <<>>, exc |-> ""]
                                ELSE [kind |-> "raised", value |-> <<>>,
                                      exc |-> RetryCallRaises(rAttempt, o)]
                  /\ UNCHANGED <<rAttempt, rValues>>
    /\ UNCHANGED rStore

\* spreadsheet = _retry_call(lambda: client.open_by_key(...), "open_by_key")
ReadOpen ==
    \E o \in ReadTrouble \cup
             (IF rStore.state = "no_spreadsheet" THEN {"SpreadsheetNotFound"} ELSE {"ok"}) :
        ReadCall("open", o, "worksheet", "SpreadsheetNotFound")

\* worksheet = _retry_call(lambda: spreadsheet.worksheet(SHEET_NAME), "worksheet_lookup")
ReadWorksheet ==
    \E o \in ReadTrouble \cup
             (IF rStore.state = "no_worksheet" THEN {"WorksheetNotFound"} ELSE {"ok"}) :
        ReadCall("worksheet", o, "values", "WorksheetNotFound")

\* all_values = _retry_call(lambda: worksheet.get_all_values(), "read_all_values")
ReadValues ==
    \E o \in ReadTrouble \cup {"ok"} : ReadCall("values", o, "parse", "Exception")

\* The rest of read_article_traffic.
ReadParse ==
    /\ rpc = "parse"
    /\ rpc' = "done"
    /\ rResult' = [kind |-> "returned", value |-> ParseSheet(rValues), exc |-> ""]
    /\ UNCHANGED <<rAttempt, rStore, rValues, rCalls>>

\* No prior data: no spreadsheet, no worksheet, or a worksheet with fewer than
\* three rows.
NoPriorData == rStore.state # "ok" \/ Len(rStore.values) < 3

\* No call failed for a reason other than the data being absent.
NoTrouble == \A i \in 1..Len(rCalls) : rCalls[i][2] \notin ReadTrouble

\* C10: when no prior data exists (spreadsheet or worksheet not found, sheet empty
\* or without data rows) read_article_traffic returns the empty map and raises
\* nothing.
C10_NoPriorDataIsEmptyMap ==
    (rpc = "done" /\ NoPriorData /\ NoTrouble) =>
        rResult = [kind |-> "returned", value |-> <<>>, exc |-> ""]

\* ======================================================================
\* main.py: dates, classification, the data the collaborators hold
\* ======================================================================
REFRESH_DAYS == 7

\* A publish_date string that does not parse (empty, or not a date).
NoDate == -1

\* datetime.min, below every parsed date.
DATETIME_MIN == -2

\* A publish_date that parses is held as its minute count; its calendar day is
\* the count over 1440, and the calendar has its New Year on day 10: days before
\* it are in 2024, the others in 2025.
PubDates == {NoDate, 5 * 1440 + 540, 13 * 1440 + 540, 13 * 1440 + 1020, 19 * 1440 + 540}

\* _parse_publish_date: (date, True) or (None, False); the time of day is dropped.
ParsePublishDate(pd) ==
    IF pd = NoDate THEN [date |-> None, ok |-> FALSE]
    ELSE [date |-> pd \div 1440, ok |-> TRUE]

YearOfDay(d) == IF d < 10 THEN 2024 ELSE 2025

\* _publish_year
PublishYear(a) ==
    LET r == ParsePublishDate(a.publish_date) IN
    IF r.ok THEN YearOfDay(r.date) ELSE None

\* _is_recent, datetime.now().date() being day
IsRecent(a, day) ==
    LET r == ParsePublishDate(a.publish_date) IN
    IF ~r.ok THEN FALSE ELSE r.date >= day - REFRESH_DAYS

\* dict.get(k, default)
DictGet(d, k, default) == IF k \in DOMAIN d THEN d[k] ELSE default

\* _is_zero_history
IsZeroHistory(prev) ==
    /\ DictGet(prev, "Sessions", 0) = 0
    /\ DictGet(prev, "Users", 0) = 0
    /\ DictGet(prev, "Pageviews", 0) = 0

\* get_articles: article i of the collection, published at pd.  The url is the
\* site domain followed by the path, so the two determine each other.
Article(i, pd) ==
    [title |-> <<"title", i>>, url |-> i, path |-> <<"path", i>>, publish_date |-> pd]

Paths == {<<"path", i>> : i \in 1..MaxArticles}

\* What the CMS may hold: nothing, or MaxArticles articles with any publish dates.
Collections ==
    {<<>>} \cup {[i \in 1..MaxArticles |-> Article(i, f[i])] : f \in [1..MaxArticles -> PubDates]}

\* The configuration main() imports: validate_config() passing or not,
\* BACKFILL_YEAR ("" when unset), HYDRATE_ZERO_OLDER, HYDRATE_MISSING_LIMIT.
Configs ==
    {[valid |-> TRUE, BACKFILL_YEAR |-> "", HYDRATE_ZERO_OLDER |-> z,
      HYDRATE_MISSING_LIMIT |-> n] : z \in BOOLEAN, n \in 0..MaxLimit}
    \cup {[valid |-> v, BACKFILL_YEAR |-> y, HYDRATE_ZERO_OLDER |-> FALSE,
           HYDRATE_MISSING_LIMIT |-> 0] :
              v \in {TRUE}, y \in {"2024", "2025", "next year"}}
    \cup {[valid |-> FALSE, BACKFILL_YEAR |-> "", HYDRATE_ZERO_OLDER |-> FALSE,
           HYDRATE_MISSING_LIMIT |-> 0]}

\* int(BACKFILL_YEAR); None stands for the ValueError.
BackfillYearInt(y) ==
    CASE y = "2024" -> 2024
      [] y = "2025" -> 2025
      [] OTHER -> None

\* The metrics the analytics property reports for a path it has a row for, by the
\* date range asked: the trailing window, all time, or the backfill year.
GaBase(kind) ==
    CASE kind = "window" -> 100
      [] kind = "alltime" -> 1200
      [] OTHER -> 2300

GaMetrics(kind, path) ==
    [sessions |-> GaBase(kind) + 10 * path[2] + 2,
     totalUsers |-> GaBase(kind) + 10 * path[2] + 1,
     screenPageViews |-> GaBase(kind) + 10 * path[2] + 3]

ZeroTraffic == [sessions |-> 0, totalUsers |-> 0, screenPageViews |-> 0]

\* fetch_traffic_by_path(paths, ...) when it returns: an entry for every requested
\* path, zeros where the report has no row.
FetchTrafficByPath(paths, kind, ga) ==
    [p \in Range(paths) |-> IF p \in ga THEN GaMetrics(kind, p) ELSE ZeroTraffic]

\* list.sort(key=..., reverse=True): descending by key, elements with equal keys
\* in their original order.
StableSortDesc(keys, items) ==
    LET n == Len(items)
        pos(i) == 1 + Cardinality({j \in 1..n :
                          keys[j] > keys[i] \/ (keys[j] = keys[i] /\ j < i)})
    IN [q \in 1..n |-> items[CHOOSE i \in 1..n : pos(i) = q]]

\* [x for x in seq if Test(x)]
Filter(seq, Test(_)) == SelectSeq(seq, Test)

\* hydrate_pool = {}; for a in pool_in: hydrate_pool[a["url"]] = a;
\* list(hydrate_pool.values()): one entry per url, at the place of the url's first
\* occurrence, holding its last article.
PoolValues(pool_in) ==
    LET first == {i \in 1..Len(pool_in) :
                     \A j \in 1..(i - 1) : pool_in[j].url # pool_in[i].url}
        lastOf(i) == CHOOSE j \in 1..Len(pool_in) :
                        /\ pool_in[j].url = pool_in[i].url
                        /\ \A m \in 1..Len(pool_in) : pool_in[m].url = pool_in[i].url => m <= j
        keep(i) == i \in first
        idx == SelectSeq([i \in 1..Len(pool_in) |-> i], keep)
    IN [q \in 1..Len(idx) |-> pool_in[lastOf(idx[q])]]

\* The key of the hydration sort: the parsed date, or datetime.min.date().
HydrateKey(a) ==
    LET r == ParsePublishDate(a.publish_date) IN IF r.ok THEN r.date ELSE DATETIME_MIN

\* hydrate_candidates_all, sorted
HydrateCandidatesAll(arts, existing, day, zero_older) ==
    LET missing(a) == ~IsRecent(a, day) /\ a.url \notin DOMAIN existing
        zero(a) == /\ ~IsRecent(a, day)
                   /\ a.url \in DOMAIN existing
                   /\ IsZeroHistory(DictGet(existing, a.url, <<>>))
        older_missing == Filter(arts, missing)
        older_zero == IF zero_older THEN Filter(arts, zero) ELSE <<>>
        pool == PoolValues(older_missing \o older_zero)
    IN StableSortDesc([i \in 1..Len(pool) |-> HydrateKey(pool[i])], pool)

\* A truncation that keeps the tail of the sorted candidates.
Truncate_Tail(all, limit) ==
    IF limit > 0
    THEN SubSeq(all, Len(all) - (IF limit < Len(all) THEN limit ELSE Len(all)) + 1, Len(all))
    ELSE <<>>

\* hydrate_candidates_all[:HYDRATE_MISSING_LIMIT] if HYDRATE_MISSING_LIMIT > 0 else []
Truncate(all, limit) ==
    IF limit > 0 THEN SubSeq(all, 1, IF limit < Len(all) THEN limit ELSE Len(all)) ELSE <<>>

\* The row of an article whose metrics come from a fetch (recent, or backfill).
FetchedRow(a, tr) ==
    LET t == DictGet(tr, a.path, <<>>) IN
    [Title |-> a.title, URL |-> a.url, PublishDate |-> a.publish_date,
     Sessions |-> DictGet(t, "sessions", 0),
     Users |-> DictGet(t, "totalUsers", 0),
     Pageviews |-> DictGet(t, "screenPageViews", 0)]

\* A merge that forgets the snapshot.
SnapshotEntry_Forgotten(existing, url) == <<>>

\* prev = existing_sheet.get(url, {})
SnapshotEntry(existing, url) == DictGet(existing, url, <<>>)

\* The row of an older article: the snapshot's metrics, replaced by the all-time
\* ones when the snapshot has none (or zeros, with HYDRATE_ZERO_OLDER) and the
\* path was hydrated.
OlderRow(a, existing, hist, zero_older) ==
    LET prev == SnapshotEntry(existing, a.url)
        should_replace_from_hydration ==
            (DOMAIN prev = {}) \/ (zero_older /\ IsZeroHistory(prev))
        t == DictGet(hist, a.path, <<>>)
        used == IF should_replace_from_hydration /\ a.path \in DOMAIN hist
                THEN [Sessions |-> DictGet(t, "sessions", 0),
                      Users |-> DictGet(t, "totalUsers", 0),
                      Pageviews |-> DictGet(t, "screenPageViews", 0)]
                ELSE prev
    IN [Title |-> a.title, URL |-> a.url, PublishDate |-> a.publish_date,
        Sessions |-> DictGet(used, "Sessions", 0),
        Users |-> DictGet(used, "Users", 0),
        Pageviews |-> DictGet(used, "Pageviews", 0)]

\* A merge that takes every row, recent or not, from the snapshot.
StandardRows_AllFromSnapshot(arts, existing, tr, hist, day, zero_older) ==
    [i \in 1..Len(arts) |-> OlderRow(arts[i], existing, hist, zero_older)]

\* rows of standard mode, one per article, in the articles' order
StandardRows(arts, existing, tr, hist, day, zero_older) ==
    [i \in 1..Len(arts) |->
        IF IsRecent(arts[i], day) THEN FetchedRow(arts[i], tr)
        ELSE OlderRow(arts[i], existing, hist, zero_older)]

\* A backfill that keeps the snapshot's metrics for the urls the sheet holds.
BackfillRows_KeepSnapshot(arts, tr) ==
    [i \in 1..Len(arts) |->
        IF arts[i].url \in DOMAIN existing_sheet
        THEN OlderRow(arts[i], existing_sheet, <<>>, FALSE)
        ELSE FetchedRow(arts[i], tr)]

\* rows of backfill mode
BackfillRows(arts, tr) == [i \in 1..Len(arts) |-> FetchedRow(arts[i], tr)]

\* _sort_key: the parsed datetime (the time of day kept), or datetime.min.
SortKey(r) == IF r.PublishDate = NoDate THEN DATETIME_MIN ELSE r.PublishDate

\* Rows handed on in the order they were built.
SortRows_AsBuilt(rs) == rs

\* rows.sort(key=_sort_key, reverse=True)
SortRows(rs) == StableSortDesc([i \in 1..Len(rs) |-> SortKey(rs[i])], rs)

\* all_cells = [meta_row] + [header_row] + data_rows
AllCells(rs) == <<META_ROW, HEADER_ROW>> \o [i \in 1..Len(rs) |-> DataRow(rs[i])]

BATCH_SIZE == 250

\* ======================================================================
\* main.py: main(), one action per stage, run after run
\* ======================================================================
syncStatic == <<cfg, cms, gaRows>>

BackfillMode == cfg.BACKFILL_YEAR # ""

\* The run's bookkeeping at its start: the day each of the three classifying
\* stages read from the clock, whether read_article_traffic answered {} for a
\* sheet that holds rows it could not read, and the exit code.
RunInfoInit ==
    [recentDay |-> None, hydrateDay |-> None, mergeDay |-> None, degraded |-> FALSE,
     exit_code |-> None]

NoPrevRun == [ok |-> FALSE, rows |-> <<>>, day |-> None, leftOut |-> FALSE]

SyncInit ==
    /\ mpc = "start"
    /\ cfg \in Configs
    /\ cms \in Collections
    /\ gaRows \in SUBSET Paths
    /\ today = 20
    /\ sheet = <<>>
    /\ existing_sheet = <<>>
    /\ articles = <<>>
    /\ traffic = <<>>
    /\ historical_traffic = <<>>
    /\ hydrate_all = <<>>
    /\ hydrate_sel = <<>>
    /\ rows = <<>>
    /\ all_cells = <<>>
    /\ batch_i = 0
    /\ trace = <<>>
    /\ runInfo = RunInfoInit
    /\ prevRun = NoPrevRun

\* The data rows an earlier run, in whatever mode and against whatever the
\* analytics property then held, left in the sheet for the collection's articles.
SeedRows(coll) ==
    [i \in 1..Len(coll) |->
        [Title |-> coll[i].title, URL |-> coll[i].url,
         PublishDate |-> coll[i].publish_date,
         Sessions |-> 3400 + 10 * i + 2,
         Users |-> 3400 + 10 * i + 1,
         Pageviews |-> 3400 + 10 * i + 3]]

SeedSheet(coll) == AllCells(SortRows(SeedRows(coll)))

\* A single run started over a sheet that is empty or was written before.
SeededInit ==
    /\ mpc = "start"
    /\ cfg \in Configs
    /\ cms \in Collections
    /\ gaRows \in SUBSET Paths
    /\ today = 20
    /\ sheet \in {<<>>, SeedSheet(cms)}
    /\ existing_sheet = <<>>
    /\ articles = <<>>
    /\ traffic = <<>>
    /\ historical_traffic = <<>>
    /\ hydrate_all = <<>>
    /\ hydrate_sel = <<>>
    /\ rows = <<>>
    /\ all_cells = <<>>
    /\ batch_i = 0
    /\ trace = <<>>
    /\ runInfo = RunInfoInit
    /\ prevRun = NoPrevRun

\* A flow that asks for the snapshot only when hydration is about to need it.
StageAfter_ReadLate(stage) ==
    CASE stage = "start" -> "articles"
      [] stage = "articles" -> IF BackfillMode THEN "backfill" ELSE "recent"
      [] stage = "backfill" -> "sort"
      [] stage = "recent" -> "read"
      [] stage = "read" -> "hydrate"
      [] stage = "hydrate" -> "merge"
      [] stage = "merge" -> "sort"
      [] stage = "sort" -> "write_open"
      [] stage = "write_open" -> "write_clear"
      [] stage = "write_clear" -> "write_update"
      [] OTHER -> "done"

\* The order of main()'s stages.
StageAfter(stage) ==
    CASE stage = "start" -> "read"
      [] stage = "read" -> "articles"
      [] stage = "articles" -> IF BackfillMode THEN "backfill" ELSE "recent"
      [] stage = "backfill" -> "sort"
      [] stage = "recent" -> "hydrate"
      [] stage = "hydrate" -> "merge"
      [] stage = "merge" -> "sort"
      [] stage = "sort" -> "write_open"
      [] stage = "write_open" -> "write_clear"
      [] stage = "write_clear" -> "write_update"
      [] OTHER -> "done"

\* The process ends and its locals with it.
Discard ==
    /\ existing_sheet' = <<>>
    /\ articles' = <<>>
    /\ traffic' = <<>>
    /\ historical_traffic' = <<>>
    /\ hydrate_all' = <<>>
    /\ hydrate_sel' = <<>>
    /\ rows' = <<>>
    /\ all_cells' = <<>>
    /\ batch_i' = 0

\* sys.exit(code)
Exits(code) ==
    /\ mpc' = "exited"
    /\ runInfo' = [runInfo EXCEPT !.exit_code = code]
    /\ Discard
    /\ UNCHANGED prevRun

\* An exception leaves main() before the write began: the sheet is as it was.
Raises ==
    /\ mpc' = "failed"
    /\ runInfo' = [runInfo EXCEPT !.exit_code = 1]
    /\ Discard
    /\ UNCHANGED prevRun

\* An exception leaves main() during the write: the sheet is no longer what the
\* last finished run wrote.
RaisesInWrite ==
    /\ mpc' = "failed"
    /\ runInfo' = [runInfo EXCEPT !.exit_code = 1]
    /\ Discard
    /\ prevRun' = NoPrevRun

\* validate_config() and int(BACKFILL_YEAR)
MainValidate ==
    /\ mpc = "start"
    /\ IF ~cfg.valid \/ (BackfillMode /\ BackfillYearInt(cfg.BACKFILL_YEAR) = None)
       THEN Exits(1)
       ELSE /\ mpc' = StageAfter("start")
            /\ UNCHANGED <<runInfo, prevRun, existing_sheet, articles, traffic,
                           historical_traffic, hydrate_all, hydrate_sel, rows,
                           all_cells, batch_i>>
    /\ UNCHANGED <<syncStatic, today, sheet, trace>>

\* existing_sheet = read_article_traffic(): it returns the parsed sheet, or {}
\* when reading the values failed, or it raises.
MainRead ==
    /\ mpc = "read"
    /\ trace' = Append(trace, "read")
    /\ \/ Raises
       \/ /\ \/ existing_sheet' = ParseSheet(sheet) /\ UNCHANGED runInfo
             \/ /\ existing_sheet' = <<>>
                /\ runInfo' = [runInfo EXCEPT !.degraded = (ParseSheet(sheet) # <<>>)]
          /\ mpc' = StageAfter("read")
          /\ UNCHANGED <<prevRun, articles, traffic, historical_traffic, hydrate_all,
                         hydrate_sel, rows, all_cells, batch_i>>
    /\ UNCHANGED <<syncStatic, today, sheet>>

\* articles = get_articles(); if not articles: sys.exit(1)
MainArticles ==
    /\ mpc = "articles"
    /\ \/ Raises
       \/ IF cms = <<>> THEN Exits(1)
          ELSE /\ articles' = cms
               /\ mpc' = StageAfter("articles")
               /\ UNCHANGED <<runInfo, prevRun, existing_sheet, traffic,
                              historical_traffic, hydrate_all, hydrate_sel, rows,
                              all_cells, batch_i>>
    /\ UNCHANGED <<syncStatic, today, sheet, trace>>

\* Backfill mode: filter by year, fetch the year's traffic, build the rows.
MainBackfill ==
    /\ mpc = "backfill"
    /\ LET inYear(a) == PublishYear(a) = BackfillYearInt(cfg.BACKFILL_YEAR)
           kept == Filter(articles, inYear)
           paths_recent == [i \in 1..Len(kept) |-> kept[i].path]
       IN IF kept = <<>>
          THEN Exits(0) /\ UNCHANGED trace
          ELSE /\ trace' = Append(trace, "fetch")
               /\ \/ Raises
                  \/ /\ articles' = kept
                     /\ traffic' = FetchTrafficByPath(paths_recent, "backfill", gaRows)
                     /\ rows' = BackfillRows(kept, traffic')
                     /\ mpc' = StageAfter("backfill")
                     /\ UNCHANGED <<runInfo, prevRun, existing_sheet,
                                    historical_traffic, hydrate_all, hydrate_sel,
                                    all_cells, batch_i>>
    /\ UNCHANGED <<syncStatic, today, sheet>>

\* Standard mode: the recent articles' window traffic, fetched when there are any.
MainFetchRecent ==
    /\ mpc = "recent"
    /\ LET recent(a) == IsRecent(a, today)
           recent_articles == Filter(articles, recent)
           paths_recent == [i \in 1..Len(recent_articles) |-> recent_articles[i].path]
       IN IF paths_recent = <<>>
          THEN /\ traffic' = <<>>
               /\ mpc' = StageAfter("recent")
               /\ runInfo' = [runInfo EXCEPT !.recentDay = today]
               /\ UNCHANGED <<trace, prevRun, existing_sheet, articles,
                              historical_traffic, hydrate_all, hydrate_sel, rows,
                              all_cells, batch_i>>
          ELSE /\ trace' = Append(trace, "fetch")
               /\ \/ Raises
                  \/ /\ traffic' = FetchTrafficByPath(paths_recent, "window", gaRows)
                     /\ mpc' = StageAfter("recent")
                     /\ runInfo' = [runInfo EXCEPT !.recentDay = today]
                     /\ UNCHANGED <<prevRun, existing_sheet, articles,
                                    historical_traffic, hydrate_all, hydrate_sel, rows,
                                    all_cells, batch_i>>
    /\ UNCHANGED <<syncStatic, today, sheet>>

\* Standard mode: the hydration candidates, sorted and truncated, and their
\* all-time traffic, fetched when any is selected.
MainHydrate ==
    /\ mpc = "hydrate"
    /\ \E all \in {HydrateCandidatesAll(articles, existing_sheet, today,
                                        cfg.HYDRATE_ZERO_OLDER)} :
       \E hydrate_candidates \in {Truncate(all, cfg.HYDRATE_MISSING_LIMIT)} :
          LET paths == [i \in 1..Len(hydrate_candidates) |-> hydrate_candidates[i].path]
              goes_on == /\ hydrate_all' = all
                         /\ hydrate_sel' = hydrate_candidates
                         /\ mpc' = StageAfter("hydrate")
                         /\ runInfo' = [runInfo EXCEPT !.hydrateDay = today]
                         /\ UNCHANGED <<prevRun, existing_sheet, articles, traffic,
                                        rows, all_cells, batch_i>>
          IN IF hydrate_candidates = <<>>
             THEN /\ historical_traffic' = <<>>
                  /\ goes_on
                  /\ UNCHANGED trace
             ELSE /\ trace' = Append(trace, "fetch")
                  /\ \/ Raises
                     \/ /\ historical_traffic' =
                               FetchTrafficByPath(paths, "alltime", gaRows)
                        /\ goes_on
    /\ UNCHANGED <<syncStatic, today, sheet>>

\* Standard mode: one row per article.
MainMerge ==
    /\ mpc = "merge"
    /\ rows' = StandardRows(articles, existing_sheet, traffic, historical_traffic,
                            today, cfg.HYDRATE_ZERO_OLDER)
    /\ runInfo' = [runInfo EXCEPT !.mergeDay = today]
    /\ mpc' = StageAfter("merge")
    /\ UNCHANGED <<syncStatic, today, sheet, existing_sheet, articles, traffic,
                   historical_traffic, hydrate_all, hydrate_sel, all_cells, batch_i,
                   trace, prevRun>>

\* rows.sort(key=_sort_key, reverse=True)
MainSort ==
    /\ mpc = "sort"
    /\ rows' = SortRows(rows)
    /\ mpc' = StageAfter("sort")
    /\ UNCHANGED <<syncStatic, today, sheet, existing_sheet, articles, traffic,
                   historical_traffic, hydrate_all, hydrate_sel, all_cells, batch_i,
                   trace, runInfo, prevRun>>

\* write_article_traffic: the client, the spreadsheet and the worksheet are
\* opened, then all_cells is laid out.
MainWriteOpen ==
    /\ mpc = "write_open"
    /\ \/ Raises
       \/ /\ all_cells' = AllCells(rows)
          /\ mpc' = StageAfter("write_open")
          /\ UNCHANGED <<runInfo, prevRun, existing_sheet, articles, traffic,
                         historical_traffic, hydrate_all, hydrate_sel, rows, batch_i>>
    /\ UNCHANGED <<syncStatic, today, sheet, trace>>

\* worksheet.clear(); when the call fails the sheet may or may not have been
\* cleared.
MainWriteClear ==
    /\ mpc = "write_clear"
    /\ trace' = Append(trace, "clear")
    /\ \/ RaisesInWrite /\ sheet' \in {sheet, <<>>}
       \/ /\ sheet' = <<>>
          /\ batch_i' = 0
          /\ mpc' = StageAfter("write_clear")
          /\ UNCHANGED <<runInfo, prevRun, existing_sheet, articles, traffic,
                         historical_traffic, hydrate_all, hydrate_sel, rows, all_cells>>
    /\ UNCHANGED <<syncStatic, today>>

\* What a finished run leaves for the next one to be compared with.
RunRecord ==
    [ok |-> ~BackfillMode,
     rows |-> rows,
     day |-> runInfo.recentDay,
     leftOut |-> Len(hydrate_all) > Len(hydrate_sel)]

\* One pass of the batch loop: worksheet.update(chunk, "A{i+1}").
MainWriteUpdate ==
    /\ mpc = "write_update"
    /\ trace' = Append(trace, "update")
    /\ \/ RaisesInWrite /\ UNCHANGED sheet
       \/ LET last == IF batch_i + BATCH_SIZE < Len(all_cells)
                      THEN batch_i + BATCH_SIZE ELSE Len(all_cells)
              chunk == SubSeq(all_cells, batch_i + 1, last)
          IN /\ sheet' = SubSeq(sheet, 1, batch_i) \o chunk
             /\ batch_i' = batch_i + BATCH_SIZE
             /\ IF batch_i + BATCH_SIZE < Len(all_cells)
                THEN UNCHANGED <<mpc, runInfo>>
                ELSE /\ mpc' = StageAfter("write_update")
                     /\ runInfo' = [runInfo EXCEPT !.exit_code = 0]
             /\ UNCHANGED <<prevRun, existing_sheet, articles, traffic,
                            historical_traffic, hydrate_all, hydrate_sel, rows,
                            all_cells>>
    /\ UNCHANGED <<syncStatic, today>>

\* The next run starts: a fresh process, the sheet as the last run left it.  A
\* run that has just finished becomes the one the sheet was written by.
MainAgain ==
    /\ mpc \in {"done", "failed", "exited"}
    /\ prevRun' = IF mpc = "done" THEN RunRecord ELSE prevRun
    /\ mpc' = "start"
    /\ existing_sheet' = <<>>
    /\ articles' = <<>>
    /\ traffic' = <<>>
    /\ historical_traffic' = <<>>
    /\ hydrate_all' = <<>>
    /\ hydrate_sel' = <<>>
    /\ rows' = <<>>
    /\ all_cells' = <<>>
    /\ batch_i' = 0
    /\ trace' = <<>>
    /\ runInfo' = RunInfoInit
    /\ UNCHANGED <<syncStatic, today, sheet>>

\* Midnight passes: datetime.now().date() moves on by a day.  It is taken where
\* it can be told apart, before a stage that reads the clock.
Midnight ==
    /\ mpc \in {"recent", "hydrate", "merge"}
    /\ today < 20 + MaxTicks
    /\ today' = today + 1
    /\ UNCHANGED <<syncStatic, mpc, sheet, existing_sheet, articles, traffic,
                   historical_traffic, hydrate_all, hydrate_sel, rows, all_cells,
                   batch_i, trace, runInfo, prevRun>>

\* ======================================================================
\* main.py: the claims about a run and about successive runs
\* ======================================================================
Count(seq, e) == Cardinality({i \in DOMAIN seq : seq[i] = e})

\* The stages at which the standard rows exist.
RowsBuilt == {"sort", "write_open", "write_clear", "write_update", "done"}

\* The stages at which the hydration selection of the run is made.
Hydrated == {"merge"} \cup RowsBuilt

StandardRun == mpc \in Hydrated /\ ~BackfillMode

MetricsOf(r) == <<r.Sessions, r.Users, r.Pageviews>>

SelectedUrls == {hydrate_sel[j].url : j \in DOMAIN hydrate_sel}

\* The rows with article a's url exist and all hold the metrics m.
RowHolds(a, m) ==
    /\ \E k \in DOMAIN rows : rows[k].URL = a.url
    /\ \A k \in DOMAIN rows : rows[k].URL = a.url => MetricsOf(rows[k]) = m

\* The snapshot's metrics for a url, zeros when it has no entry.
SnapshotOrZero(u) ==
    IF u \in DOMAIN existing_sheet THEN MetricsOf(existing_sheet[u]) ELSE <<0, 0, 0>>

\* C3: within a run, standard or backfill, the snapshot is read once and before
\* any analytics fetch, every fetch comes before the first clear or update of the
\* spreadsheet, and nothing is read or fetched after the run's own write began; a
\* run that finished has read the snapshot exactly once.
C3_ReadFetchWrite ==
    mpc # "parked" =>
        /\ Count(trace, "read") <= 1
        /\ \A j \in DOMAIN trace :
              trace[j] = "fetch" => \E i \in 1..(j - 1) : trace[i] = "read"
        /\ \A k \in DOMAIN trace :
              trace[k] \in {"clear", "update"} =>
                  /\ \E i \in 1..(k - 1) : trace[i] = "read"
                  /\ \A j \in DOMAIN trace : trace[j] \in {"read", "fetch"} => j < k
        /\ mpc = "done" => Count(trace, "read") = 1

C3_Witness ==
    /\ mpc = "done"
    /\ ~BackfillMode
    /\ trace = <<"read", "fetch", "fetch", "clear", "update">>

\* C4: in standard mode the row of an article that is older when the rows are
\* built and was not selected for hydration holds exactly the snapshot's metrics
\* for its url, and zeros when the snapshot has no entry for it.
C4_OlderReproducesSnapshot ==
    (mpc \in RowsBuilt /\ ~BackfillMode) =>
        \A i \in DOMAIN articles :
            (~IsRecent(articles[i], runInfo.mergeDay) /\ articles[i].url \notin SelectedUrls)
                => RowHolds(articles[i], SnapshotOrZero(articles[i].url))

C4_Witness ==
    /\ mpc = "done"
    /\ ~BackfillMode
    /\ \E i \in DOMAIN articles :
          /\ ~IsRecent(articles[i], runInfo.mergeDay)
          /\ articles[i].url \notin SelectedUrls
          /\ articles[i].url \in DOMAIN existing_sheet
          /\ existing_sheet[articles[i].url].Sessions > 1000
          /\ RowHolds(articles[i], MetricsOf(existing_sheet[articles[i].url]))

\* The articles eligible for hydration on day: older, and absent from the
\* snapshot or, with HYDRATE_ZERO_OLDER, present in it with all metrics zero.
Eligible(day) ==
    {i \in DOMAIN articles :
        /\ ~IsRecent(articles[i], day)
        /\ \/ articles[i].url \notin DOMAIN existing_sheet
           \/ /\ cfg.HYDRATE_ZERO_OLDER
              /\ SnapshotOrZero(articles[i].url) = <<0, 0, 0>>}

\* The calendar day an article was published on, an unparseable date being the
\* earliest of all.
PublishedDay(a) ==
    IF a.publish_date = NoDate THEN DATETIME_MIN ELSE a.publish_date \div 1440

\* The all-time metrics fetched for a path.
FetchedAllTime(path) ==
    <<historical_traffic[path].sessions, historical_traffic[path].totalUsers,
      historical_traffic[path].screenPageViews>>

\* C5: in standard mode with HYDRATE_MISSING_LIMIT = N > 0 and more than N eligible
\* candidates, exactly N are selected, none of the others was published on a
\* later day than a selected one, the selected ones' rows hold the all-time
\* fetched metrics and the others' rows hold zeros; with N = 0 nothing is
\* selected or fetched and every older row is the snapshot's or zero.
C5_HydrationCap ==
    (mpc \in RowsBuilt /\ ~BackfillMode) =>
        LET N == cfg.HYDRATE_MISSING_LIMIT
            E == Eligible(runInfo.hydrateDay)
            S == {i \in E : articles[i].url \in SelectedUrls}
        IN /\ (N > 0 /\ Cardinality(E) > N) =>
                 /\ Cardinality(S) = N
                 /\ Len(hydrate_sel) = N
                 /\ \A s \in S : \A u \in E \ S :
                        PublishedDay(articles[s]) >= PublishedDay(articles[u])
                 /\ \A s \in S :
                        /\ articles[s].path \in DOMAIN historical_traffic
                        /\ RowHolds(articles[s], FetchedAllTime(articles[s].path))
                 /\ \A u \in E \ S : RowHolds(articles[u], <<0, 0, 0>>)
           /\ N = 0 =>
                 /\ hydrate_sel = <<>>
                 /\ historical_traffic = <<>>
                 /\ \A i \in DOMAIN articles :
                        ~IsRecent(articles[i], runInfo.mergeDay)
                            => RowHolds(articles[i], SnapshotOrZero(articles[i].url))

C5_Witness ==
    /\ mpc = "done"
    /\ ~BackfillMode
    /\ cfg.HYDRATE_MISSING_LIMIT = 1
    /\ Cardinality(Eligible(runInfo.hydrateDay)) = 2
    /\ Len(hydrate_sel) = 1
    /\ hydrate_sel[1].url = 2
    /\ PublishedDay(articles[2]) > PublishedDay(articles[1])
    /\ rows[1].URL = 2
    /\ rows[1].Sessions > 1000
    /\ MetricsOf(rows[2]) = <<0, 0, 0>>

LeftOut(i) ==
    /\ StandardRun
    /\ cfg.HYDRATE_MISSING_LIMIT >= 1
    /\ i \in DOMAIN articles
    /\ articles[i].url \in {hydrate_all[j].url : j \in DOMAIN hydrate_all}
    /\ articles[i].url \notin SelectedUrls

Selected(i) ==
    /\ StandardRun
    /\ i \in DOMAIN articles
    /\ articles[i].url \in SelectedUrls

\* C6: over successful standard runs without end, each reading the sheet the one
\* before wrote, with HYDRATE_MISSING_LIMIT >= 1 and the article list unchanged,
\* an article that was a hydration candidate and was not selected is selected in
\* a later run.
C6_LeftOutEventuallyHydrated == \A i \in 1..MaxArticles : LeftOut(i) ~> Selected(i)

\* The run that has just finished is a standard run that read the sheet as the
\* finished standard run before it wrote it, and read the same date from the
\* clock as that run did (the clock only moves forward, so the first reading of
\* the first run and the last of the second are the same day).
SecondRunDone ==
    /\ mpc = "done"
    /\ ~BackfillMode
    /\ prevRun.ok
    /\ prevRun.day = runInfo.mergeDay
    /\ ~runInfo.degraded

SnapshotReadFailed == mpc # "parked" /\ runInfo.degraded

\* C11: a run whose upstream read (the snapshot read of the sheet's values, the
\* CMS fetch or an analytics fetch) failed after its retries ends failed and
\* never reaches the merge, the sort or the write.
C11_UpstreamFailureStopsRun == SnapshotReadFailed => mpc \notin Hydrated

\* The metrics the analytics property holds for a path over a date range.
Fetched(kind, path) ==
    IF path \in gaRows
    THEN <<GaBase(kind) + 10 * path[2] + 2, GaBase(kind) + 10 * path[2] + 1,
           GaBase(kind) + 10 * path[2] + 3>>
    ELSE <<0, 0, 0>>

InTargetYear(a) == PublishYear(a) = BackfillYearInt(cfg.BACKFILL_YEAR)

RowsOf(u) == {k \in DOMAIN rows : rows[k].URL = u}

\* C13: in backfill mode the rows hold exactly one row for each article of the
\* CMS list whose parsed publish year is the target year and none for any other
\* article, and each row's metrics are those fetched for its path in this run,
\* whatever the snapshot holds for its url.
C13_BackfillRows ==
    (mpc \in RowsBuilt /\ BackfillMode) =>
        /\ \A i \in DOMAIN cms :
              Cardinality(RowsOf(cms[i].url)) = IF InTargetYear(cms[i]) THEN 1 ELSE 0
        /\ \A k \in DOMAIN rows :
              \E i \in DOMAIN cms :
                 /\ rows[k].URL = cms[i].url
                 /\ MetricsOf(rows[k]) = Fetched("backfill", cms[i].path)

C13_Witness ==
    /\ mpc = "done"
    /\ BackfillMode
    /\ Len(cms) = 2
    /\ Len(rows) = 1
    /\ \E i \in DOMAIN cms : cms[i].publish_date = NoDate /\ RowsOf(cms[i].url) = {}
    /\ rows[1].Sessions > 0
    /\ rows[1].URL \in DOMAIN existing_sheet
    /\ MetricsOf(existing_sheet[rows[1].URL]) # MetricsOf(rows[1])

\* C16: in standard mode the rows hold exactly one row per article of the CMS
\* list, and every article the merge takes as recent has the metrics fetched
\* for its path over the window in this run, zeros when the report has no row
\* for it, whatever the snapshot holds for its url.
C16_StandardRows ==
    (mpc \in RowsBuilt /\ ~BackfillMode) =>
        /\ Len(rows) = Len(cms)
        /\ \A i \in DOMAIN cms : Cardinality(RowsOf(cms[i].url)) = 1
        /\ \A i \in DOMAIN cms :
              IsRecent(cms[i], runInfo.mergeDay) =>
                  RowHolds(cms[i], Fetched("window", cms[i].path))

C16_Witness ==
    /\ mpc = "done"
    /\ ~BackfillMode
    /\ Len(rows) = 2
    /\ \A i \in DOMAIN cms :
          /\ IsRecent(cms[i], runInfo.mergeDay)
          /\ cms[i].url \in DOMAIN existing_sheet
          /\ existing_sheet[cms[i].url].Sessions > 3000
    /\ \E k \in DOMAIN rows : MetricsOf(rows[k]) = <<0, 0, 0>>
    /\ \E k \in DOMAIN rows : rows[k].Sessions \in 1..999

\* C15: a worksheet.clear() or worksheet.update() call made through _retry_call
\* that exceeds its timeout ceiling is not invoked again: the timeout is the
\* last attempt of the call and the call raises.
C15_TimeoutIsFatal ==
    wrapper = "sheets" =>
        \A i \in 1..Len(outcomes) :
            outcomes[i] = "timeout" => (i = Len(outcomes) /\ retryResult = "raised_wrapped")

\* The row's publish date parses.
Dated(r) == ParsePublishDate(r.PublishDate).ok

\* after holds the rows of before, by descending sort key, rows with equal keys
\* in the order they had in before, every undated row behind every dated one.
SortedStable(before, after) ==
    LET n == Len(before)
    IN /\ Len(after) = n
       /\ \E perm \in [1..n -> 1..n] :
             /\ \A q, r \in 1..n : q < r =>
                    /\ perm[q] # perm[r]
                    /\ SortKey(after[q]) >= SortKey(after[r])
                    /\ SortKey(after[q]) = SortKey(after[r]) => perm[q] < perm[r]
             /\ \A q \in 1..n : after[q] = before[perm[q]]
       /\ \A q, r \in 1..n :
             (Dated(after[q]) /\ Dated(after[r]) /\ q < r) =>
                 ParsePublishDate(after[q].PublishDate).date >=
                     ParsePublishDate(after[r].PublishDate).date
       /\ \A q, r \in 1..n : (Dated(after[q]) /\ ~Dated(after[r])) => q < r

\* C17: the rows handed to the writer are the rows that were built, ordered by
\* parsed publish date descending, with every row whose date is empty or does
\* not parse behind every row whose date parses, and with rows of equal sort
\* keys in the order in which they were built.
C17_SortedStable ==
    [][(mpc = "sort" /\ mpc' = "write_open") => SortedStable(rows, rows')]_vars

C17_Witness ==
    /\ mpc = "write_open"
    /\ Len(rows) = 2
    /\ rows[1].URL = 2
    /\ Dated(rows[1])
    /\ rows[2].URL = 1
    /\ ~Dated(rows[2])

\* C19: the outcome RUN_STATE holds for a finished run is succeeded exactly when
\* the exit code is 0 and failed exactly when it is not; a run that main() left
\* through sys.exit(0) is not recorded as failed.
C19_OutcomeConsistent ==
    RUN_STATE.last_status \in {"succeeded", "failed"} =>
        (RUN_STATE.last_status = "succeeded" <=> RUN_STATE.last_exit_code = 0)

\* ======================================================================
\* The response stream of an accepted run
\* ======================================================================
Accepted(r) == reqPc[r] \in {"streaming", "done"}

\* What generate() has yielded for the log so far, the head left out.
StreamedChunks(r) ==
    IF reqPc[r] = "done"
    THEN SubSeq(streamed[r], 2, Len(streamed[r]) - 2)
    ELSE SubSeq(streamed[r], 2, Len(streamed[r]))

\* The chunks the worker has written, as html.escape renders them.
EscapedPrinted(r) == [i \in 1..Len(printed[r]) |-> HtmlEscape(printed[r][i])]

\* The stream so far holds the worker's chunks in the order they were written
\* and nothing else; once the stream has ended it holds all of them, then a final
\* status line that is succeeded or failed and agrees with RUN_STATE.
StreamFaithful(r) ==
    Accepted(r) =>
        /\ streamed[r][1] = "HEAD"
        /\ Len(StreamedChunks(r)) <= Len(printed[r])
        /\ StreamedChunks(r) = SubSeq(EscapedPrinted(r), 1, Len(StreamedChunks(r)))
        /\ reqPc[r] = "done" =>
              LET final == streamed[r][Len(streamed[r]) - 1]
              IN /\ Len(StreamedChunks(r)) = Len(printed[r])
                 /\ worker[r] = "done"
                 /\ streamed[r][Len(streamed[r])] = "TAIL"
                 /\ final.status \in {"succeeded", "failed"}
                 /\ final.status = RUN_STATE.last_status
                 /\ final.exit_code = RUN_STATE.last_exit_code
                 /\ ~RUN_STATE.running

PathChars == {"/", "a", "?", "#", " "}

StringsUpTo(chars, n) == UNION {[1..k -> chars] : k \in 0..n}

PathStrings == StringsUpTo(PathChars, MaxPathLen)

\* The lists of paths a caller passes.
PathLists == UNION {[1..k -> PathStrings] : k \in 0..MaxPaths}

RECURSIVE LStrip(_)
LStrip(s) == IF s # <<>> /\ Head(s) = " " THEN LStrip(Tail(s)) ELSE s

RECURSIVE RStrip(_)
RStrip(s) ==
    IF s # <<>> /\ s[Len(s)] = " " THEN RStrip(SubSeq(s, 1, Len(s) - 1)) ELSE s

\* str.strip()
Strip(s) == RStrip(LStrip(s))

\* s.split(c, 1)[0]
BeforeFirst(s, c) ==
    LET hits == {i \in DOMAIN s : s[i] = c}
    IN IF hits = {} THEN s
       ELSE SubSeq(s, 1, (CHOOSE i \in hits : \A j \in hits : i <= j) - 1)

\* "//" in p
HasDoubleSlash(p) == \E i \in 1..(Len(p) - 1) : p[i] = "/" /\ p[i + 1] = "/"

\* p.replace("//", "/"): left to right, the occurrences replaced do not overlap.
RECURSIVE ReplaceDoubleSlash(_)
ReplaceDoubleSlash(p) ==
    IF Len(p) < 2 THEN p
    ELSE IF p[1] = "/" /\ p[2] = "/"
         THEN <<"/">> \o ReplaceDoubleSlash(SubSeq(p, 3, Len(p)))
         ELSE <<p[1]>> \o ReplaceDoubleSlash(Tail(p))

\* while "//" in p: p = p.replace("//", "/")
RECURSIVE CollapseSlashes(_)
CollapseSlashes(p) ==
    IF HasDoubleSlash(p) THEN CollapseSlashes(ReplaceDoubleSlash(p)) ELSE p

\* _normalize_path(path)
NormalizePath(path) ==
    IF path = <<>> THEN <<"/">>
    ELSE LET cut == BeforeFirst(BeforeFirst(Strip(path), "?"), "#")
             rooted == IF cut # <<>> /\ cut[1] = "/" THEN cut ELSE <<"/">> \o cut
             p == CollapseSlashes(rooted)
         IN IF p # <<"/">> /\ p[Len(p)] = "/" THEN SubSeq(p, 1, Len(p) - 1) ELSE p

\* A metric value int() does not accept.
NotAnInt == -1

\* The metricValues of a report row.
ReportMetrics == {<<12, 11, 13>>, <<22, 21, 23>>, <<12, NotAnInt, 13>>}

\* The pagePath values a report row can carry for a request filtered on the
\* targets: a target, a spelling that normalises to one, no value, and a path
\* that was not asked for.
ReportPaths(targets) ==
    targets \cup {t \o <<"/">> : t \in targets} \cup {<<>>, <<"/", "z">>}

ReportRowsFor(targets) ==
    [hasDims : {TRUE}, path : ReportPaths(targets), metricValues : ReportMetrics]
        \cup [hasDims : {FALSE}, path : {<<>>}, metricValues : {<<12, 11, 13>>}]

\* Only the first of the originals that share a normalised path gets an entry.
Originals_FirstOnly(paths_in, n) ==
    LET same(p) == NormalizePath(p) = n
    IN <<Filter(paths_in, same)[1]>>

\* normalized_to_originals[n]: the requested paths that normalise to n, in the
\* order they were requested.
Originals(paths_in, n) ==
    LET same(p) == NormalizePath(p) = n
    IN Filter(paths_in, same)

\* The loop that maps the normalised values back to the requested keys.
Broadcast(n2o, nres) ==
    LET keys == UNION {Range(n2o[n]) : n \in DOMAIN n2o}
    IN [p \in keys |-> nres[CHOOSE n \in DOMAIN n2o : p \in Range(n2o[n])]]

FetchParked ==
    /\ fpc = "parked"
    /\ original_paths = <<>>
    /\ normalized_to_originals = <<>>
    /\ normalized_result = <<>>
    /\ report_rows = <<>>
    /\ fetch_result = <<>>

\* A caller calls fetch_traffic_by_path(paths).
FetchInit ==
    /\ fpc = "call"
    /\ original_paths \in PathLists
    /\ normalized_to_originals = <<>>
    /\ normalized_result = <<>>
    /\ report_rows = <<>>
    /\ fetch_result = <<>>

\* Up to the batch loop: {} for no paths, else the grouping by normalised path
\* and the zero entries.
FetchBegin ==
    /\ fpc = "call"
    /\ IF original_paths = <<>>
       THEN /\ fpc' = "returned"
            /\ UNCHANGED <<normalized_to_originals, normalized_result>>
       ELSE LET targets == {NormalizePath(original_paths[i]) : i \in DOMAIN original_paths}
            IN /\ normalized_to_originals' =
                      [n \in targets |-> Originals(original_paths, n)]
               /\ normalized_result' = [n \in targets |-> ZeroTraffic]
               /\ fpc' = "report"
    /\ UNCHANGED <<original_paths, report_rows, fetch_result>>

\* One row of a report response: skipped without dimension values or when its
\* normalised path was not asked for, else its three metrics replace the entry;
\* int() of a metric that is no integer raises.
FetchRow ==
    /\ fpc = "report"
    /\ Len(report_rows) < MaxRows
    /\ \E row \in ReportRowsFor(DOMAIN normalized_result) :
          /\ report_rows' = Append(report_rows, row)
          /\ LET path == NormalizePath(row.path)
                 metrics == row.metricValues
             IN IF ~row.hasDims \/ path \notin DOMAIN normalized_result
                THEN UNCHANGED <<fpc, normalized_result>>
                ELSE IF \E k \in 1..3 : metrics[k] = NotAnInt
                THEN /\ fpc' = "raised"
                     /\ UNCHANGED normalized_result
                ELSE /\ normalized_result' =
                            [normalized_result EXCEPT ![path] =
                                [sessions |-> metrics[1],
                                 totalUsers |-> metrics[2],
                                 screenPageViews |-> metrics[3]]]
                     /\ UNCHANGED fpc
    /\ UNCHANGED <<original_paths, normalized_to_originals, fetch_result>>

\* _run_report_with_retries gives up and raises.
FetchReportRaises ==
    /\ fpc = "report"
    /\ fpc' = "raised"
    /\ UNCHANGED <<original_paths, normalized_to_originals, normalized_result,
                   report_rows, fetch_result>>

\* The responses are exhausted: the result is built and returned.
FetchReturn ==
    /\ fpc = "report"
    /\ fetch_result' = Broadcast(normalized_to_originals, normalized_result)
    /\ fpc' = "returned"
    /\ UNCHANGED <<original_paths, normalized_to_originals, normalized_result,
                   report_rows>>

\* The normalised paths of the rows the responses held.
ReportedPaths ==
    {NormalizePath(report_rows[i].path) :
        i \in {j \in DOMAIN report_rows : report_rows[j].hasDims}}

\* C12: when fetch_traffic_by_path(paths) returns, the result has an entry for
\* every requested path and for nothing else, the entry is all zeros when no
\* response row normalises to the path's normalised form, and requested paths
\* with the same normalised form have equal metrics.
C12_NormalizationBroadcast ==
    fpc = "returned" =>
        /\ DOMAIN fetch_result = Range(original_paths)
        /\ \A p \in Range(original_paths) :
              NormalizePath(p) \notin ReportedPaths => fetch_result[p] = ZeroTraffic
        /\ \A p1, p2 \in Range(original_paths) :
              NormalizePath(p1) = NormalizePath(p2) => fetch_result[p1] = fetch_result[p2]

C12_Witness ==
    /\ fpc = "returned"
    /\ \E p1, p2 \in Range(original_paths) :
          /\ p1 # p2
          /\ NormalizePath(p1) = NormalizePath(p2)
          /\ NormalizePath(p1) # p1
          /\ NormalizePath(p2) # p2
          /\ fetch_result[p1].sessions > 0
          /\ fetch_result[p2] = fetch_result[p1]

\* ======================================================================
\* main._parse_publish_date and main._is_recent over date strings
\* ======================================================================
IsDigit(ch) == ch \in Range(DigitChars)

Two(n) == <<DigitChar(n \div 10), DigitChar(n % 10)>>

\* s.endswith(suffix)
EndsWith(s, suffix) ==
    /\ Len(s) >= Len(suffix)
    /\ SubSeq(s, Len(s) - Len(suffix) + 1, Len(s)) = suffix

NoMatch(s) == [ok |-> FALSE, val |-> 0, rest |-> s]

\* %Y of strptime: four digits.
YearField(s) ==
    IF Len(s) >= 4 /\ \A i \in 1..4 : IsDigit(s[i])
    THEN [ok |-> TRUE, val |-> ValueOf(SubSeq(s, 1, 4)), rest |-> SubSeq(s, 5, Len(s))]
    ELSE NoMatch(s)

\* A numeric directive of strptime: two digits whose value is in lo2..hi2, else
\* one digit that is at least lo1 (the two-digit alternatives come first in its
\* pattern).
NumField(s, lo2, hi2, lo1) ==
    IF Len(s) >= 2 /\ IsDigit(s[1]) /\ IsDigit(s[2])
          /\ ValueOf(SubSeq(s, 1, 2)) \in lo2..hi2
    THEN [ok |-> TRUE, val |-> ValueOf(SubSeq(s, 1, 2)), rest |-> SubSeq(s, 3, Len(s))]
    ELSE IF Len(s) >= 1 /\ IsDigit(s[1]) /\ DigitVal(s[1]) >= lo1
    THEN [ok |-> TRUE, val |-> DigitVal(s[1]), rest |-> Tail(s)]
    ELSE NoMatch(s)

\* %m: 1[0-2]|0[1-9]|[1-9]
MonthField(s) == NumField(s, 1, 12, 1)

\* %d: 3[01]|[12]\d|0[1-9]|[1-9]| [1-9]
DayField(s) ==
    IF NumField(s, 1, 31, 1).ok THEN NumField(s, 1, 31, 1)
    ELSE IF Len(s) >= 2 /\ s[1] = " " /\ IsDigit(s[2]) /\ DigitVal(s[2]) >= 1
    THEN [ok |-> TRUE, val |-> DigitVal(s[2]), rest |-> SubSeq(s, 3, Len(s))]
    ELSE NoMatch(s)

\* %H: 2[0-3]|[0-1]\d|\d
HourField(s) == NumField(s, 0, 23, 0)

\* %M: [0-5]\d|\d
MinuteField(s) == NumField(s, 0, 59, 0)

\* A literal character of the format.
Lit(s, ch) ==
    IF s # <<>> /\ s[1] = ch THEN [ok |-> TRUE, val |-> 0, rest |-> Tail(s)]
    ELSE NoMatch(s)

\* A blank of the format: one or more blanks of the string.
Blanks(s) ==
    IF s # <<>> /\ s[1] = " " THEN [ok |-> TRUE, val |-> 0, rest |-> LStrip(s)]
    ELSE NoMatch(s)

IsLeap(y) == (y % 4 = 0 /\ y % 100 # 0) \/ y % 400 = 0

DaysInMonth(y, m) ==
    IF m = 2 THEN (IF IsLeap(y) THEN 29 ELSE 28)
    ELSE IF m \in {4, 6, 9, 11} THEN 30 ELSE 31

\* The date exists in the calendar.
ValidDate(y, m, d) == y >= 1 /\ m \in 1..12 /\ d \in 1..DaysInMonth(y, m)

RECURSIVE DaysBeforeMonth(_, _)
DaysBeforeMonth(y, m) ==
    IF m = 1 THEN 0 ELSE DaysBeforeMonth(y, m - 1) + DaysInMonth(y, m - 1)

\* date.toordinal()
ToOrdinal(y, m, d) ==
    (y - 1) * 365 + (y - 1) \div 4 - (y - 1) \div 100 + (y - 1) \div 400
        + DaysBeforeMonth(y, m) + d

StrptimeFails == [ok |-> FALSE, y |-> 0, m |-> 0, d |-> 0]

\* The date of datetime.strptime(s, "%Y-%m-%d"), with_time being FALSE, or of
\* datetime.strptime(s, "%Y-%m-%d %H:%M"); a ValueError is ok = FALSE.  The
\* whole string has to be used up and the date has to exist.
Strptime(s, with_time) ==
    LET y == YearField(s)
        l1 == Lit(y.rest, "-")
        m == MonthField(l1.rest)
        l2 == Lit(m.rest, "-")
        d == DayField(l2.rest)
        b == Blanks(d.rest)
        hh == HourField(b.rest)
        l3 == Lit(hh.rest, ":")
        mm == MinuteField(l3.rest)
        date_ok == y.ok /\ l1.ok /\ m.ok /\ l2.ok /\ d.ok
        time_ok == b.ok /\ hh.ok /\ l3.ok /\ mm.ok
        used_up == IF with_time THEN time_ok /\ mm.rest = <<>> ELSE d.rest = <<>>
    IN IF date_ok /\ used_up /\ ValidDate(y.val, m.val, d.val)
       THEN [ok |-> TRUE, y |-> y.val, m |-> m.val, d |-> d.val]
       ELSE StrptimeFails

\* _parse_publish_date(s): (date, True) or (None, False)
ParsePublishDateText(s) ==
    IF s = <<>> \/ Strip(s) = <<>> THEN StrptimeFails
    ELSE LET s1 == Strip(s)
             s2 == IF EndsWith(s1, <<" ", "E", "T">>)
                   THEN Strip(SubSeq(s1, 1, Len(s1) - 3)) ELSE s1
             t == IF Len(s2) > 16 THEN SubSeq(s2, 1, 16) ELSE s2
         IN IF Strptime(t, TRUE).ok THEN Strptime(t, TRUE) ELSE Strptime(t, FALSE)

\* A comparison that leaves the cutoff day itself out.
OnOrAfter_StrictlyAfter(day, cutoff) == day > cutoff

\* pub_date >= cutoff
OnOrAfter(day, cutoff) == day >= cutoff

\* _is_recent(article), datetime.now().date() being now
IsRecentText(s, now) ==
    LET r == ParsePublishDateText(s)
    IN IF ~r.ok THEN FALSE
       ELSE OnOrAfter(ToOrdinal(r.y, r.m, r.d), ToOrdinal(now.y, now.m, now.d) - REFRESH_DAYS)

\* The ways a publish date reaches _is_recent: as _format_publish_datetime
\* writes it ("cms"), without the zone, as a date alone, with seconds, with
\* blanks around it, without leading zeros, with the ISO "T", with slashes, and
\* with no date in it at all.
DateForms ==
    {"cms", "minutes", "date", "seconds", "padded", "bare", "iso", "slashes",
     "empty", "blank", "text"}

IsoDate(w) == DigitsOf(w.y) \o <<"-">> \o Two(w.m) \o <<"-">> \o Two(w.d)

ClockText(w) == Two(w.H) \o <<":">> \o Two(w.M)

Render(form, w) ==
    CASE form = "cms" -> IsoDate(w) \o <<" ">> \o ClockText(w) \o <<" ", "E", "T">>
      [] form = "minutes" -> IsoDate(w) \o <<" ">> \o ClockText(w)
      [] form = "date" -> IsoDate(w)
      [] form = "seconds" -> IsoDate(w) \o <<" ">> \o ClockText(w) \o <<":", "0", "0">>
      [] form = "padded" -> <<" ", " ">> \o IsoDate(w) \o <<" ">>
      [] form = "bare" ->
            DigitsOf(w.y) \o <<"-">> \o DigitsOf(w.m) \o <<"-">> \o DigitsOf(w.d)
                \o <<" ">> \o DigitsOf(w.H) \o <<":">> \o DigitsOf(w.M)
      [] form = "iso" -> IsoDate(w) \o <<"T">> \o ClockText(w)
      [] form = "slashes" ->
            Two(w.m) \o <<"/">> \o Two(w.d) \o <<"/">> \o DigitsOf(w.y)
      [] form = "empty" -> <<>>
      [] form = "blank" -> <<" ", " ">>
      [] OTHER -> <<"n", "/", "a">>

\* The dates and times written, some of which are not in the calendar.
Whens ==
    [y : {2024, 2025}, m : {1, 2, 3, 12}, d : {1, 26, 27, 28, 29, 30, 31},
     H : {0, 23}, M : {0, 59}]

\* The days on which _is_recent is called.
Nows == {[y |-> 2025, m |-> 3, d |-> 7], [y |-> 2024, m |-> 3, d |-> 7],
         [y |-> 2025, m |-> 1, d |-> 3]}

RecencyParked ==
    /\ qpc = "parked"
    /\ pub_text = <<>>
    /\ pub_form = ""
    /\ pub_when = <<>>
    /\ now_date = <<>>
    /\ is_recent = FALSE

RecencyInit ==
    /\ qpc = "call"
    /\ pub_form \in DateForms
    /\ pub_when \in Whens
    /\ pub_text = Render(pub_form, pub_when)
    /\ now_date \in Nows
    /\ is_recent = FALSE

\* _is_recent(article) returns; the ValueError of strptime is caught inside.
IsRecentCall ==
    /\ qpc = "call"
    /\ is_recent' = IsRecentText(pub_text, now_date)
    /\ qpc' = "returned"
    /\ UNCHANGED <<pub_text, pub_form, pub_when, now_date>>

\* The forms strptime reads with one of the two formats.
ParseableForms == {"cms", "minutes", "date", "seconds", "padded", "bare"}

\* The string holds a date that parses.
Parses ==
    pub_form \in ParseableForms /\ ValidDate(pub_when.y, pub_when.m, pub_when.d)

\* The days from the publish date to the day of the call.
AgeInDays ==
    ToOrdinal(now_date.y, now_date.m, now_date.d)
        - ToOrdinal(pub_when.y, pub_when.m, pub_when.d)

Published(y, m, d) == pub_when.y = y /\ pub_when.m = m /\ pub_when.d = d

CalledOn(y, m, d) == now_date = [y |-> y, m |-> m, d |-> d]

\* C18: _is_recent returns, and returns TRUE exactly when the publish date parses
\* and is on or after the day REFRESH_DAYS days before the day of the call; with
\* the window of 7, a date 7 days before the call is recent and one 8 days
\* before is not, across the end of February and of the year; a date that is
\* empty or does not parse is not recent.
C18_RecentWindow ==
    qpc = "returned" =>
        /\ is_recent = (Parses /\ AgeInDays <= REFRESH_DAYS)
        /\ (Parses /\ CalledOn(2025, 3, 7) /\ Published(2025, 2, 28)) => is_recent
        /\ (Parses /\ CalledOn(2025, 3, 7) /\ Published(2025, 2, 27)) => ~is_recent
        /\ (Parses /\ CalledOn(2024, 3, 7) /\ Published(2024, 2, 29)) => is_recent
        /\ (Parses /\ CalledOn(2024, 3, 7) /\ Published(2024, 2, 28)) => ~is_recent
        /\ (Parses /\ CalledOn(2025, 1, 3) /\ Published(2024, 12, 27)) => is_recent
        /\ (Parses /\ CalledOn(2025, 1, 3) /\ Published(2024, 12, 26)) => ~is_recent
        /\ ~Parses => ~is_recent

C18_Witness ==
    /\ qpc = "returned"
    /\ pub_form = "cms"
    /\ CalledOn(2025, 3, 7)
    /\ Published(2025, 2, 28)
    /\ pub_when.H = 0
    /\ is_recent

\* ======================================================================
\* Parked values of the variables a specification does not use
\* ======================================================================
SyncParked ==
    /\ mpc = "parked"
    /\ cfg = <<>>
    /\ cms = <<>>
    /\ gaRows = {}
    /\ today = 0
    /\ sheet = <<>>
    /\ existing_sheet = <<>>
    /\ articles = <<>>
    /\ traffic = <<>>
    /\ historical_traffic = <<>>
    /\ hydrate_all = <<>>
    /\ hydrate_sel = <<>>
    /\ rows = <<>>
    /\ all_cells = <<>>
    /\ batch_i = 0
    /\ trace = <<>>
    /\ runInfo = <<>>
    /\ prevRun = <<>>

RetryParked ==
    /\ wrapper = "parked"
    /\ attempt = 0
    /\ outcomes = <<>>
    /\ sleeps = <<>>
    /\ retryResult = "parked"

ReadParked ==
    /\ rpc = "parked"
    /\ rAttempt = 0
    /\ rStore = [state |-> "parked", values |-> <<>>]
    /\ rValues = <<>>
    /\ rResult = [kind |-> "parked", value |-> <<>>, exc |-> ""]
    /\ rCalls = <<>>

\* ======================================================================
\* Specifications
\* ======================================================================
Init ==
    CoordInit /\ SyncParked /\ RetryParked /\ ReadParked /\ FetchParked
        /\ RecencyParked

CoordOnly == UNCHANGED <<syncVars, retryVars, readVars, fetchVars, recencyVars>>

Next ==
    \/ \E r \in Req : RunForbidden(r) /\ CoordOnly
    \/ \E r \in Req : RunReject(r) /\ CoordOnly
    \/ \E r \in Req : RunAcquire(r) /\ CoordOnly
    \/ \E r \in Req : RunSetState(r) /\ CoordOnly
    \/ \E r \in Req : RunStartThread(r) /\ CoordOnly
    \/ \E r \in Req : WorkerBegin(r) /\ CoordOnly
    \/ \E r \in Req : WorkerSyncReturns(r) /\ CoordOnly
    \/ \E r \in Req : WorkerSyncExits(r) /\ CoordOnly
    \/ \E r \in Req : WorkerSyncRaises(r) /\ CoordOnly
    \/ \E r \in Req : WorkerFinalize(r) /\ CoordOnly
    \/ \E r \in Req : WorkerRelease(r) /\ CoordOnly
    \/ \E r \in Req : WorkerPutNone(r) /\ CoordOnly

\* A started thread keeps running: every step of run_sync_in_thread is taken.
Spec == Init /\ [][Next]_vars /\ \A r \in Req : WF_vars(WorkerStep(r) /\ CoordOnly)

\* One request with the generator that streams its response: the handler, its
\* worker, the lines run_sync() prints and generate() draining the worker's queue.
StreamNext ==
    \/ RunForbidden(1) /\ CoordOnly
    \/ RunAcquire(1) /\ CoordOnly
    \/ RunSetState(1) /\ CoordOnly
    \/ RunStartThread(1) /\ CoordOnly
    \/ WorkerStep(1) /\ CoordOnly
    \/ WorkerPrint(1) /\ CoordOnly
    \/ GenChunk(1) /\ CoordOnly
    \/ GenFinal(1) /\ CoordOnly

\* The worker thread keeps running and the server keeps pulling the generator.
StreamSpec ==
    /\ Init
    /\ [][StreamNext]_vars
    /\ WF_vars(WorkerStep(1) /\ CoordOnly)
    /\ WF_vars(GenChunk(1) /\ CoordOnly)
    /\ WF_vars(GenFinal(1) /\ CoordOnly)

\* main.main(), every variable of the other groups left alone.
SyncOnly == UNCHANGED <<coordVars, retryVars, readVars, fetchVars, recencyVars>>

SyncSpecInit ==
    CoordParked /\ SyncInit /\ RetryParked /\ ReadParked /\ FetchParked
        /\ RecencyParked

SyncNext ==
    \/ MainValidate /\ SyncOnly
    \/ MainRead /\ SyncOnly
    \/ MainArticles /\ SyncOnly
    \/ MainBackfill /\ SyncOnly
    \/ MainFetchRecent /\ SyncOnly
    \/ MainHydrate /\ SyncOnly
    \/ MainMerge /\ SyncOnly
    \/ MainSort /\ SyncOnly
    \/ MainWriteOpen /\ SyncOnly
    \/ MainWriteClear /\ SyncOnly
    \/ MainWriteUpdate /\ SyncOnly
    \/ MainAgain /\ SyncOnly
    \/ Midnight /\ SyncOnly

\* The sync is run again and again (by hand or on a schedule), and a started
\* run goes on to its end.
SyncSpec == SyncSpecInit /\ [][SyncNext]_vars /\ WF_vars(SyncNext)

\* One run of main() over a sheet that may have been written before.
SeededSpecInit ==
    CoordParked /\ SeededInit /\ RetryParked /\ ReadParked /\ FetchParked
        /\ RecencyParked

SeededNext ==
    \/ MainValidate /\ SyncOnly
    \/ MainRead /\ SyncOnly
    \/ MainArticles /\ SyncOnly
    \/ MainBackfill /\ SyncOnly
    \/ MainFetchRecent /\ SyncOnly
    \/ MainHydrate /\ SyncOnly
    \/ MainMerge /\ SyncOnly
    \/ MainSort /\ SyncOnly
    \/ MainWriteOpen /\ SyncOnly
    \/ MainWriteClear /\ SyncOnly
    \/ MainWriteUpdate /\ SyncOnly
    \/ Midnight /\ SyncOnly

SeededSpec == SeededSpecInit /\ [][SeededNext]_vars

\* Standard runs with HYDRATE_MISSING_LIMIT >= 1 that all succeed: no call
\* fails, and read_article_traffic returns the sheet as the run before wrote it.
PickupInit ==
    /\ SyncInit
    /\ cfg.valid
    /\ ~BackfillMode
    /\ cfg.HYDRATE_MISSING_LIMIT >= 1
    /\ cms # <<>>

Succeeds == mpc' \notin {"failed", "exited"} /\ ~runInfo'.degraded

PickupNext ==
    \/ MainValidate /\ Succeeds /\ SyncOnly
    \/ MainRead /\ Succeeds /\ SyncOnly
    \/ MainArticles /\ Succeeds /\ SyncOnly
    \/ MainFetchRecent /\ Succeeds /\ SyncOnly
    \/ MainHydrate /\ Succeeds /\ SyncOnly
    \/ MainMerge /\ Succeeds /\ SyncOnly
    \/ MainSort /\ Succeeds /\ SyncOnly
    \/ MainWriteOpen /\ Succeeds /\ SyncOnly
    \/ MainWriteClear /\ Succeeds /\ SyncOnly
    \/ MainWriteUpdate /\ Succeeds /\ SyncOnly
    \/ MainAgain /\ SyncOnly
    \/ Midnight /\ SyncOnly

PickupSpecInit ==
    CoordParked /\ PickupInit /\ RetryParked /\ ReadParked /\ FetchParked
        /\ RecencyParked

\* The runs keep coming and a started run goes on to its end.
PickupSpec == PickupSpecInit /\ [][PickupNext]_vars /\ WF_vars(PickupNext)

\* One call of one retry wrapper.
RetryOnly == UNCHANGED <<coordVars, syncVars, readVars, fetchVars, recencyVars>>

RetrySpecInit ==
    CoordParked /\ SyncParked /\ RetryInit /\ ReadParked /\ FetchParked
        /\ RecencyParked

RetryNext ==
    \/ WebflowAttempt /\ RetryOnly
    \/ Ga4Attempt /\ RetryOnly
    \/ SheetsAttempt /\ RetryOnly

RetrySpec == RetrySpecInit /\ [][RetryNext]_vars

\* One call of read_article_traffic.
ReadOnly == UNCHANGED <<coordVars, syncVars, retryVars, fetchVars, recencyVars>>

ReadSpecInit ==
    CoordParked /\ SyncParked /\ RetryParked /\ ReadInit /\ FetchParked
        /\ RecencyParked

ReadNext ==
    \/ ReadOpen /\ ReadOnly
    \/ ReadWorksheet /\ ReadOnly
    \/ ReadValues /\ ReadOnly
    \/ ReadParse /\ ReadOnly

ReadSpec == ReadSpecInit /\ [][ReadNext]_vars

\* One call of fetch_traffic_by_path.
FetchOnly == UNCHANGED <<coordVars, syncVars, retryVars, readVars, recencyVars>>

FetchSpecInit ==
    CoordParked /\ SyncParked /\ RetryParked /\ ReadParked /\ FetchInit
        /\ RecencyParked

FetchNext ==
    \/ FetchBegin /\ FetchOnly
    \/ FetchRow /\ FetchOnly
    \/ FetchReportRaises /\ FetchOnly
    \/ FetchReturn /\ FetchOnly

FetchSpec == FetchSpecInit /\ [][FetchNext]_vars

\* One call of _is_recent.
RecencyOnly == UNCHANGED <<coordVars, syncVars, retryVars, readVars, fetchVars>>

RecencySpecInit ==
    CoordParked /\ SyncParked /\ RetryParked /\ ReadParked /\ FetchParked /\ RecencyInit

RecencyNext ==
    \/ IsRecentCall /\ RecencyOnly

RecencySpec == RecencySpecInit /\ [][RecencyNext]_vars

====
